---- MODULE Spec2Model ----
(***************************************************************************)
(* Model of the organization management service (src/Main.py): the naming  *)
(* normalizer org_slug, the OrganizationService operations create, update  *)
(* and delete over the MongoDB collections "organizations", "admins" and   *)
(* the per-organization collections, and the AuthService token functions.  *)
(*                                                                         *)
(* Strings whose content the code inspects or builds (names, slugs,        *)
(* collection names, stringified ids) are sequences of one-character       *)
(* strings.  Opaque strings (emails, password hashes, error messages) are  *)
(* TLA+ strings.                                                           *)
(***************************************************************************)
EXTENDS Integers, Sequences, FiniteSets, TLC

VARIABLES
    orgs,      \* master_db["organizations"]: documents in insertion order
    admins,    \* master_db["admins"]: documents in insertion order
    colls,     \* the per-organization collections: name -> documents (<<>> = absent)
    nextOid,   \* the next ObjectId the driver generates
    now,       \* datetime.utcnow(), in minutes
    tokens,    \* the tokens create_token has returned
    last,      \* the last call: operation, arguments, outcome
    freed,     \* history, per slug: "deleted" once a delete of it has completed,
               \* "renamed" once an update has then given the slug to an
               \* organization, "no" before any delete and after a create of it
    procs      \* per worker: the call it is in the middle of, with the point
               \* it has reached and its local variables

vars == <<orgs, admins, colls, nextOid, now, tokens, last, freed, procs>>

----------------------------------------------------------------------------
(* Bounds of the model *)

\* the ObjectIds the driver hands out are 1..MaxOid
MaxOid == 8
\* the ids the driver generates in the specification of the calls run one at
\* a time: 1..MaxSeqOid
MaxSeqOid == 7

\* the ids the driver generates in the specification with crashes: 1..MaxCrashOid
MaxCrashOid == 5
\* the ids the driver generates in the specification with tokens: 1..MaxLifeOid
MaxLifeOid == 4
\* the names given to org_slug on its own have at most MaxNameLen characters
MaxNameLen == 3
\* tokens are issued during the first MaxTime minutes
MaxTime == 1
\* at most MaxTokens tokens are issued
MaxTokens == 1

----------------------------------------------------------------------------
(* Characters and strings *)

\* A string of the service (a name, a slug, a collection name) is the
\* sequence of its characters, each a one-character string; the names taken
\* are of printable ASCII characters.  Inside slugify the text is the
\* sequence of its code points, as a Python str holds it: the character
\* references of a name can name every code point.

UpperCase == <<"A","B","C","D","E","F","G","H","I","J","K","L","M",
               "N","O","P","Q","R","S","T","U","V","W","X","Y","Z">>
LowerCase == <<"a","b","c","d","e","f","g","h","i","j","k","l","m",
               "n","o","p","q","r","s","t","u","v","w","x","y","z">>
Digits == <<"0","1","2","3","4","5","6","7","8","9">>

Range(f) == {f[i] : i \in DOMAIN f}

\* the character class [a-z0-9-] of the check in org_slug
SlugCharSet == Range(LowerCase) \cup Range(Digits) \cup {"-"}

SlugChar(c) == c \in SlugCharSet

\* the printable ASCII characters, by code point from 32 to 126 (the grave
\* accent, which a string of this language cannot hold, is "U+0060")
Ascii == <<
    " ", "!", "\"", "#", "$", "%", "&", "'", "(", ")", "*", "+", ",", "-",
    ".", "/", "0", "1", "2", "3", "4", "5", "6", "7", "8", "9", ":", ";", "<",
    "=", ">", "?", "@", "A", "B", "C", "D", "E", "F", "G", "H", "I", "J", "K",
    "L", "M", "N", "O", "P", "Q", "R", "S", "T", "U", "V", "W", "X", "Y", "Z",
    "[", "\\", "]", "^", "_", "U+0060", "a", "b", "c", "d", "e", "f", "g",
    "h", "i", "j", "k", "l", "m", "n", "o", "p", "q", "r", "s", "t", "u", "v",
    "w", "x", "y", "z", "{", "|", "}", "~" >>

\* the code point of each printable ASCII character
AsciiCodePoint ==
    [c \in Range(Ascii) |-> 31 + CHOOSE i \in DOMAIN Ascii : Ascii[i] = c]

\* ord(c) of a printable ASCII character
ord(c) == AsciiCodePoint[c]

\* the text of a string: its code points
CodePoints(s) == [i \in DOMAIN s |-> ord(s[i])]

\* the string of a text of printable ASCII code points
Characters(text) == [i \in DOMAIN text |-> Ascii[text[i] - 31]]

\* the code points the patterns of slugify name
Apostrophe == ord("'")
Ampersand == ord("&")
Semicolon == ord(";")
NumberSign == ord("#")
SmallX == ord("x")
Comma == ord(",")
Dash == ord("-")
CapitalA == ord("A")
CapitalF == ord("F")
CapitalZ == ord("Z")
SmallA == ord("a")
SmallF == ord("f")

\* the code points of [-a-zA-Z0-9], the characters slugify keeps
SlugifyKeepSet ==
    {Dash} \cup {ord(c) : c \in Range(LowerCase) \cup Range(UpperCase) \cup Range(Digits)}

\* html.entities.name2codepoint: the names of the character entities, each
\* with its code point
name2codepoint == {
    <<<<"A","E","l","i","g">>, 198>>, <<<<"A","a","c","u","t","e">>, 193>>,
    <<<<"A","c","i","r","c">>, 194>>, <<<<"A","g","r","a","v","e">>, 192>>,
    <<<<"A","l","p","h","a">>, 913>>, <<<<"A","r","i","n","g">>, 197>>,
    <<<<"A","t","i","l","d","e">>, 195>>, <<<<"A","u","m","l">>, 196>>,
    <<<<"B","e","t","a">>, 914>>, <<<<"C","c","e","d","i","l">>, 199>>,
    <<<<"C","h","i">>, 935>>, <<<<"D","a","g","g","e","r">>, 8225>>,
    <<<<"D","e","l","t","a">>, 916>>, <<<<"E","T","H">>, 208>>,
    <<<<"E","a","c","u","t","e">>, 201>>, <<<<"E","c","i","r","c">>, 202>>,
    <<<<"E","g","r","a","v","e">>, 200>>, <<<<"E","p","s","i","l","o","n">>,
    917>>, <<<<"E","t","a">>, 919>>, <<<<"E","u","m","l">>, 203>>,
    <<<<"G","a","m","m","a">>, 915>>, <<<<"I","a","c","u","t","e">>, 205>>,
    <<<<"I","c","i","r","c">>, 206>>, <<<<"I","g","r","a","v","e">>, 204>>,
    <<<<"I","o","t","a">>, 921>>, <<<<"I","u","m","l">>, 207>>,
    <<<<"K","a","p","p","a">>, 922>>, <<<<"L","a","m","b","d","a">>, 923>>,
    <<<<"M","u">>, 924>>, <<<<"N","t","i","l","d","e">>, 209>>, <<<<"N","u">>,
    925>>, <<<<"O","E","l","i","g">>, 338>>, <<<<"O","a","c","u","t","e">>,
    211>>, <<<<"O","c","i","r","c">>, 212>>, <<<<"O","g","r","a","v","e">>,
    210>>, <<<<"O","m","e","g","a">>, 937>>,
    <<<<"O","m","i","c","r","o","n">>, 927>>, <<<<"O","s","l","a","s","h">>,
    216>>, <<<<"O","t","i","l","d","e">>, 213>>, <<<<"O","u","m","l">>, 214>>,
    <<<<"P","h","i">>, 934>>, <<<<"P","i">>, 928>>, <<<<"P","r","i","m","e">>,
    8243>>, <<<<"P","s","i">>, 936>>, <<<<"R","h","o">>, 929>>,
    <<<<"S","c","a","r","o","n">>, 352>>, <<<<"S","i","g","m","a">>, 931>>,
    <<<<"T","H","O","R","N">>, 222>>, <<<<"T","a","u">>, 932>>,
    <<<<"T","h","e","t","a">>, 920>>, <<<<"U","a","c","u","t","e">>, 218>>,
    <<<<"U","c","i","r","c">>, 219>>, <<<<"U","g","r","a","v","e">>, 217>>,
    <<<<"U","p","s","i","l","o","n">>, 933>>, <<<<"U","u","m","l">>, 220>>,
    <<<<"X","i">>, 926>>, <<<<"Y","a","c","u","t","e">>, 221>>,
    <<<<"Y","u","m","l">>, 376>>, <<<<"Z","e","t","a">>, 918>>,
    <<<<"a","a","c","u","t","e">>, 225>>, <<<<"a","c","i","r","c">>, 226>>,
    <<<<"a","c","u","t","e">>, 180>>, <<<<"a","e","l","i","g">>, 230>>,
    <<<<"a","g","r","a","v","e">>, 224>>, <<<<"a","l","e","f","s","y","m">>,
    8501>>, <<<<"a","l","p","h","a">>, 945>>, <<<<"a","m","p">>, 38>>,
    <<<<"a","n","d">>, 8743>>, <<<<"a","n","g">>, 8736>>,
    <<<<"a","r","i","n","g">>, 229>>, <<<<"a","s","y","m","p">>, 8776>>,
    <<<<"a","t","i","l","d","e">>, 227>>, <<<<"a","u","m","l">>, 228>>,
    <<<<"b","d","q","u","o">>, 8222>>, <<<<"b","e","t","a">>, 946>>,
    <<<<"b","r","v","b","a","r">>, 166>>, <<<<"b","u","l","l">>, 8226>>,
    <<<<"c","a","p">>, 8745>>, <<<<"c","c","e","d","i","l">>, 231>>,
    <<<<"c","e","d","i","l">>, 184>>, <<<<"c","e","n","t">>, 162>>,
    <<<<"c","h","i">>, 967>>, <<<<"c","i","r","c">>, 710>>,
    <<<<"c","l","u","b","s">>, 9827>>, <<<<"c","o","n","g">>, 8773>>,
    <<<<"c","o","p","y">>, 169>>, <<<<"c","r","a","r","r">>, 8629>>,
    <<<<"c","u","p">>, 8746>>, <<<<"c","u","r","r","e","n">>, 164>>,
    <<<<"d","A","r","r">>, 8659>>, <<<<"d","a","g","g","e","r">>, 8224>>,
    <<<<"d","a","r","r">>, 8595>>, <<<<"d","e","g">>, 176>>,
    <<<<"d","e","l","t","a">>, 948>>, <<<<"d","i","a","m","s">>, 9830>>,
    <<<<"d","i","v","i","d","e">>, 247>>, <<<<"e","a","c","u","t","e">>,
    233>>, <<<<"e","c","i","r","c">>, 234>>, <<<<"e","g","r","a","v","e">>,
    232>>, <<<<"e","m","p","t","y">>, 8709>>, <<<<"e","m","s","p">>, 8195>>,
    <<<<"e","n","s","p">>, 8194>>, <<<<"e","p","s","i","l","o","n">>, 949>>,
    <<<<"e","q","u","i","v">>, 8801>>, <<<<"e","t","a">>, 951>>,
    <<<<"e","t","h">>, 240>>, <<<<"e","u","m","l">>, 235>>,
    <<<<"e","u","r","o">>, 8364>>, <<<<"e","x","i","s","t">>, 8707>>,
    <<<<"f","n","o","f">>, 402>>, <<<<"f","o","r","a","l","l">>, 8704>>,
    <<<<"f","r","a","c","1","2">>, 189>>, <<<<"f","r","a","c","1","4">>,
    188>>, <<<<"f","r","a","c","3","4">>, 190>>, <<<<"f","r","a","s","l">>,
    8260>>, <<<<"g","a","m","m","a">>, 947>>, <<<<"g","e">>, 8805>>,
    <<<<"g","t">>, 62>>, <<<<"h","A","r","r">>, 8660>>, <<<<"h","a","r","r">>,
    8596>>, <<<<"h","e","a","r","t","s">>, 9829>>,
    <<<<"h","e","l","l","i","p">>, 8230>>, <<<<"i","a","c","u","t","e">>,
    237>>, <<<<"i","c","i","r","c">>, 238>>, <<<<"i","e","x","c","l">>, 161>>,
    <<<<"i","g","r","a","v","e">>, 236>>, <<<<"i","m","a","g","e">>, 8465>>,
    <<<<"i","n","f","i","n">>, 8734>>, <<<<"i","n","t">>, 8747>>,
    <<<<"i","o","t","a">>, 953>>, <<<<"i","q","u","e","s","t">>, 191>>,
    <<<<"i","s","i","n">>, 8712>>, <<<<"i","u","m","l">>, 239>>,
    <<<<"k","a","p","p","a">>, 954>>, <<<<"l","A","r","r">>, 8656>>,
    <<<<"l","a","m","b","d","a">>, 955>>, <<<<"l","a","n","g">>, 9001>>,
    <<<<"l","a","q","u","o">>, 171>>, <<<<"l","a","r","r">>, 8592>>,
    <<<<"l","c","e","i","l">>, 8968>>, <<<<"l","d","q","u","o">>, 8220>>,
    <<<<"l","e">>, 8804>>, <<<<"l","f","l","o","o","r">>, 8970>>,
    <<<<"l","o","w","a","s","t">>, 8727>>, <<<<"l","o","z">>, 9674>>,
    <<<<"l","r","m">>, 8206>>, <<<<"l","s","a","q","u","o">>, 8249>>,
    <<<<"l","s","q","u","o">>, 8216>>, <<<<"l","t">>, 60>>,
    <<<<"m","a","c","r">>, 175>>, <<<<"m","d","a","s","h">>, 8212>>,
    <<<<"m","i","c","r","o">>, 181>>, <<<<"m","i","d","d","o","t">>, 183>>,
    <<<<"m","i","n","u","s">>, 8722>>, <<<<"m","u">>, 956>>,
    <<<<"n","a","b","l","a">>, 8711>>, <<<<"n","b","s","p">>, 160>>,
    <<<<"n","d","a","s","h">>, 8211>>, <<<<"n","e">>, 8800>>, <<<<"n","i">>,
    8715>>, <<<<"n","o","t">>, 172>>, <<<<"n","o","t","i","n">>, 8713>>,
    <<<<"n","s","u","b">>, 8836>>, <<<<"n","t","i","l","d","e">>, 241>>,
    <<<<"n","u">>, 957>>, <<<<"o","a","c","u","t","e">>, 243>>,
    <<<<"o","c","i","r","c">>, 244>>, <<<<"o","e","l","i","g">>, 339>>,
    <<<<"o","g","r","a","v","e">>, 242>>, <<<<"o","l","i","n","e">>, 8254>>,
    <<<<"o","m","e","g","a">>, 969>>, <<<<"o","m","i","c","r","o","n">>,
    959>>, <<<<"o","p","l","u","s">>, 8853>>, <<<<"o","r">>, 8744>>,
    <<<<"o","r","d","f">>, 170>>, <<<<"o","r","d","m">>, 186>>,
    <<<<"o","s","l","a","s","h">>, 248>>, <<<<"o","t","i","l","d","e">>,
    245>>, <<<<"o","t","i","m","e","s">>, 8855>>, <<<<"o","u","m","l">>,
    246>>, <<<<"p","a","r","a">>, 182>>, <<<<"p","a","r","t">>, 8706>>,
    <<<<"p","e","r","m","i","l">>, 8240>>, <<<<"p","e","r","p">>, 8869>>,
    <<<<"p","h","i">>, 966>>, <<<<"p","i">>, 960>>, <<<<"p","i","v">>, 982>>,
    <<<<"p","l","u","s","m","n">>, 177>>, <<<<"p","o","u","n","d">>, 163>>,
    <<<<"p","r","i","m","e">>, 8242>>, <<<<"p","r","o","d">>, 8719>>,
    <<<<"p","r","o","p">>, 8733>>, <<<<"p","s","i">>, 968>>,
    <<<<"q","u","o","t">>, 34>>, <<<<"r","A","r","r">>, 8658>>,
    <<<<"r","a","d","i","c">>, 8730>>, <<<<"r","a","n","g">>, 9002>>,
    <<<<"r","a","q","u","o">>, 187>>, <<<<"r","a","r","r">>, 8594>>,
    <<<<"r","c","e","i","l">>, 8969>>, <<<<"r","d","q","u","o">>, 8221>>,
    <<<<"r","e","a","l">>, 8476>>, <<<<"r","e","g">>, 174>>,
    <<<<"r","f","l","o","o","r">>, 8971>>, <<<<"r","h","o">>, 961>>,
    <<<<"r","l","m">>, 8207>>, <<<<"r","s","a","q","u","o">>, 8250>>,
    <<<<"r","s","q","u","o">>, 8217>>, <<<<"s","b","q","u","o">>, 8218>>,
    <<<<"s","c","a","r","o","n">>, 353>>, <<<<"s","d","o","t">>, 8901>>,
    <<<<"s","e","c","t">>, 167>>, <<<<"s","h","y">>, 173>>,
    <<<<"s","i","g","m","a">>, 963>>, <<<<"s","i","g","m","a","f">>, 962>>,
    <<<<"s","i","m">>, 8764>>, <<<<"s","p","a","d","e","s">>, 9824>>,
    <<<<"s","u","b">>, 8834>>, <<<<"s","u","b","e">>, 8838>>,
    <<<<"s","u","m">>, 8721>>, <<<<"s","u","p">>, 8835>>,
    <<<<"s","u","p","1">>, 185>>, <<<<"s","u","p","2">>, 178>>,
    <<<<"s","u","p","3">>, 179>>, <<<<"s","u","p","e">>, 8839>>,
    <<<<"s","z","l","i","g">>, 223>>, <<<<"t","a","u">>, 964>>,
    <<<<"t","h","e","r","e","4">>, 8756>>, <<<<"t","h","e","t","a">>, 952>>,
    <<<<"t","h","e","t","a","s","y","m">>, 977>>,
    <<<<"t","h","i","n","s","p">>, 8201>>, <<<<"t","h","o","r","n">>, 254>>,
    <<<<"t","i","l","d","e">>, 732>>, <<<<"t","i","m","e","s">>, 215>>,
    <<<<"t","r","a","d","e">>, 8482>>, <<<<"u","A","r","r">>, 8657>>,
    <<<<"u","a","c","u","t","e">>, 250>>, <<<<"u","a","r","r">>, 8593>>,
    <<<<"u","c","i","r","c">>, 251>>, <<<<"u","g","r","a","v","e">>, 249>>,
    <<<<"u","m","l">>, 168>>, <<<<"u","p","s","i","h">>, 978>>,
    <<<<"u","p","s","i","l","o","n">>, 965>>, <<<<"u","u","m","l">>, 252>>,
    <<<<"w","e","i","e","r","p">>, 8472>>, <<<<"x","i">>, 958>>,
    <<<<"y","a","c","u","t","e">>, 253>>, <<<<"y","e","n">>, 165>>,
    <<<<"y","u","m","l">>, 255>>, <<<<"z","e","t","a">>, 950>>,
    <<<<"z","w","j">>, 8205>>, <<<<"z","w","n","j">>, 8204>> }

\* the names of the character entities
EntityNames == {e[1] : e \in name2codepoint}

\* \d of a str pattern matches the decimal digits of every script (category
\* Nd); they come in runs of ten, from the digit zero to the digit nine, and
\* these are the code points of the digits zero
DecimalDigitZeros == {
    48, 1632, 1776, 1984, 2406, 2534, 2662, 2790, 2918, 3046, 3174, 3302,
    3430, 3558, 3664, 3792, 3872, 4160, 4240, 6112, 6160, 6470, 6608, 6784,
    6800, 6992, 7088, 7232, 7248, 42528, 43216, 43264, 43472, 43504, 43600,
    44016, 65296, 66720, 68912, 69734, 69872, 69942, 70096, 70384, 70736,
    70864, 71248, 71360, 71472, 71904, 72016, 72784, 73040, 73120, 92768,
    92864, 93008, 120782, 120792, 120802, 120812, 120822, 123200, 123632,
    125264, 130032 }

\* \d
IsDecimalDigit(cp) == \E z \in DecimalDigitZeros : cp \in z..(z + 9)

\* the character class [\da-fA-F] of HEX_PATTERN
IsHexDigit(cp) ==
    \/ cp \in SmallA..SmallF
    \/ cp \in CapitalA..CapitalF
    \/ IsDecimalDigit(cp)

\* the second component of the one entry among hits, or the default when
\* there is none: a table is a set of entries, each with its key first
Found(hits, default) ==
    IF hits = {} THEN default ELSE (CHOOSE h \in hits : TRUE)[2]

\* the code points chr() accepts are those below this one (0x110000)
CodePointLimit == 1114112

\* the value of a digit in int(digits) and int(digits, 16): a decimal digit
\* of any script counts as its ASCII digit
DigitValue(cp) ==
    IF cp \in SmallA..SmallF THEN cp - SmallA + 10
    ELSE IF cp \in CapitalA..CapitalF THEN cp - CapitalA + 10
    ELSE cp - (CHOOSE z \in DecimalDigitZeros : cp \in z..(z + 9))

\* int(digits) raises ValueError on a decimal numeral of more digits than
\* this (sys.int_info.default_max_str_digits, the limit of the interpreter
\* as it is started by default), the leading zeros counted
IntMaxStrDigits == 4300

\* int(digits, base) raises: the limit is on the numerals of base 10, and
\* int(digits, 16) takes a numeral of any length
IntRaises(digits, base) == base = 10 /\ Len(digits) > IntMaxStrDigits

\* the digits from the first that is not a zero
Significant(digits) ==
    LET nz == {i \in DOMAIN digits : DigitValue(digits[i]) # 0}
    IN  IF nz = {} THEN <<>>
        ELSE SubSeq(digits, CHOOSE i \in nz : \A j \in nz : i <= j, Len(digits))

\* a numeral of more significant digits than this is CodePointLimit or more
\* in base 10 and in base 16
CodePointDigits == 7

\* the value of the digits in this base, added to acc * base^Len(digits); a
\* value of CodePointLimit or more is kept as CodePointLimit
RECURSIVE ValueOf(_, _, _)
ValueOf(digits, base, acc) ==
    IF digits = <<>> THEN acc
    ELSE LET v == acc * base + DigitValue(Head(digits))
         IN  ValueOf(Tail(digits), base,
                     IF v < CodePointLimit THEN v ELSE CodePointLimit)

\* int(digits, base) added to acc, for digits that int accepts; a value of
\* CodePointLimit or more is kept as CodePointLimit
IntOf(digits, base, acc) ==
    IF acc = 0 /\ Len(Significant(digits)) > CodePointDigits
    THEN CodePointLimit
    ELSE ValueOf(IF acc = 0 THEN Significant(digits) ELSE digits, base, acc)

\* the position of the first c in s, 0 if s has none
FirstIndex(s, c) ==
    IF \E i \in DOMAIN s : s[i] = c
    THEN CHOOSE i \in DOMAIN s : s[i] = c /\ \A j \in 1..(i - 1) : s[j] # c
    ELSE 0

\* what is left of s when only the positions in K are kept
KeepAt(s, K) ==
    [k \in 1..Cardinality(K) |->
        s[CHOOSE i \in K : Cardinality({j \in K : j <= i}) = k]]

\* the texts parts[lo], ..., parts[hi], joined
RECURSIVE Concat(_, _, _)
Concat(parts, lo, hi) ==
    IF lo > hi THEN <<>>
    ELSE IF lo = hi THEN parts[lo]
    ELSE Concat(parts, lo, (lo + hi) \div 2)
           \o Concat(parts, (lo + hi) \div 2 + 1, hi)

\* slugify, QUOTE_PATTERN before the decoding: each run of apostrophes
\* becomes one separator
QuotesToDash(s) ==
    KeepAt([i \in DOMAIN s |-> IF s[i] = Apostrophe THEN Dash ELSE s[i]],
           {i \in DOMAIN s :
               ~(s[i] = Apostrophe /\ i < Len(s) /\ s[i + 1] = Apostrophe)})

\* the text is the name of a character entity
IsEntityName(body) ==
    /\ \A i \in DOMAIN body : body[i] \in 32..126
    /\ Characters(body) \in EntityNames

\* slugify, CHAR_ENTITY_PATTERN "&(name|...);", DECIMAL_PATTERN "&#(\d+);" and
\* HEX_PATTERN "&#x([\da-fA-F]+);": when s starts with a match of the
\* pattern, the text between its "&" and its ";", and <<>> otherwise
RefBody(s, kind) ==
    LET j == FirstIndex(s, Semicolon)
        body == SubSeq(s, 2, j - 1)
    IN  IF s = <<>> \/ s[1] # Ampersand \/ j = 0 THEN <<>>
        ELSE CASE kind = "entity" ->
                    IF IsEntityName(body) THEN body ELSE <<>>
               [] kind = "decimal" ->
                    IF /\ Len(body) >= 2
                       /\ body[1] = NumberSign
                       /\ \A i \in 2..Len(body) : IsDecimalDigit(body[i])
                    THEN body ELSE <<>>
               [] kind = "hex" ->
                    IF /\ Len(body) >= 3
                       /\ body[1] = NumberSign
                       /\ body[2] = SmallX
                       /\ \A i \in 3..Len(body) : IsHexDigit(body[i])
                    THEN body ELSE <<>>

\* the code point a reference names: name2codepoint[name], int(digits),
\* int(digits, 16)
RefCodePoint(body, kind) ==
    CASE kind = "entity" ->
            Found({e \in name2codepoint : e[1] = Characters(body)}, 0)
      [] kind = "decimal" -> IntOf(Tail(body), 10, 0)
      [] kind = "hex" -> IntOf(SubSeq(body, 3, Len(body)), 16, 0)

\* pattern.sub(lambda m: chr(...), s): the matches are taken from the left,
\* and each is replaced by the character of its code point; a match starts
\* at a "&", and the text up to the next "&" is kept as it is
RECURSIVE SubReferences(_, _)
SubReferences(s, kind) ==
    LET j == FirstIndex(s, Ampersand)
        rest == SubSeq(s, j, Len(s))
        body == RefBody(rest, kind)
    IN  IF j = 0 THEN s
        ELSE IF body = <<>>
        THEN SubSeq(s, 1, j) \o SubReferences(Tail(rest), kind)
        ELSE SubSeq(s, 1, j - 1) \o <<RefCodePoint(body, kind)>>
               \o SubReferences(SubSeq(rest, Len(body) + 3, Len(rest)), kind)

\* the replacement of a match raises: int on a decimal numeral too long for
\* it, or chr on a code point out of its range
RefRaises(body, kind) ==
    \/ kind = "decimal" /\ IntRaises(Tail(body), 10)
    \/ kind = "hex" /\ IntRaises(SubSeq(body, 3, Len(body)), 16)
    \/ RefCodePoint(body, kind) >= CodePointLimit

\* int or chr raises on one of the matches
RECURSIVE ChrRaises(_, _)
ChrRaises(s, kind) ==
    LET j == FirstIndex(s, Ampersand)
        rest == SubSeq(s, j, Len(s))
        body == RefBody(rest, kind)
    IN  IF j = 0 THEN FALSE
        ELSE IF body = <<>> THEN ChrRaises(Tail(rest), kind)
        ELSE \/ RefRaises(body, kind)
             \/ ChrRaises(SubSeq(rest, Len(body) + 3, Len(rest)), kind)

\* slugify, one decoding pass: the references of this kind are replaced by
\* the characters they name; an exception in the pass is swallowed and
\* leaves the text as it was
Unescape(s, kind) ==
    IF ChrRaises(s, kind) THEN s ELSE SubReferences(s, kind)

\* slugify: the decoding passes, in this order
RECURSIVE Decode(_, _)
Decode(s, kinds) ==
    IF kinds = <<>> THEN s
    ELSE Decode(Unescape(s, Head(kinds)), Tail(kinds))

\* unicodedata: the code points with a decomposition (canonical or
\* compatibility), each with its full decomposition; the Hangul syllables,
\* whose decomposition is computed, are not in the table
Decomposition == {
    <<160, <<32>>>>, <<168, <<32,776>>>>, <<170, <<97>>>>, <<175,
    <<32,772>>>>, <<178, <<50>>>>, <<179, <<51>>>>, <<180, <<32,769>>>>,
    <<181, <<956>>>>, <<184, <<32,807>>>>, <<185, <<49>>>>, <<186, <<111>>>>,
    <<188, <<49,8260,52>>>>, <<189, <<49,8260,50>>>>, <<190, <<51,8260,52>>>>,
    <<192, <<65,768>>>>, <<193, <<65,769>>>>, <<194, <<65,770>>>>, <<195,
    <<65,771>>>>, <<196, <<65,776>>>>, <<197, <<65,778>>>>, <<199,
    <<67,807>>>>, <<200, <<69,768>>>>, <<201, <<69,769>>>>, <<202,
    <<69,770>>>>, <<203, <<69,776>>>>, <<204, <<73,768>>>>, <<205,
    <<73,769>>>>, <<206, <<73,770>>>>, <<207, <<73,776>>>>, <<209,
    <<78,771>>>>, <<210, <<79,768>>>>, <<211, <<79,769>>>>, <<212,
    <<79,770>>>>, <<213, <<79,771>>>>, <<214, <<79,776>>>>, <<217,
    <<85,768>>>>, <<218, <<85,769>>>>, <<219, <<85,770>>>>, <<220,
    <<85,776>>>>, <<221, <<89,769>>>>, <<224, <<97,768>>>>, <<225,
    <<97,769>>>>, <<226, <<97,770>>>>, <<227, <<97,771>>>>, <<228,
    <<97,776>>>>, <<229, <<97,778>>>>, <<231, <<99,807>>>>, <<232,
    <<101,768>>>>, <<233, <<101,769>>>>, <<234, <<101,770>>>>, <<235,
    <<101,776>>>>, <<236, <<105,768>>>>, <<237, <<105,769>>>>, <<238,
    <<105,770>>>>, <<239, <<105,776>>>>, <<241, <<110,771>>>>, <<242,
    <<111,768>>>>, <<243, <<111,769>>>>, <<244, <<111,770>>>>, <<245,
    <<111,771>>>>, <<246, <<111,776>>>>, <<249, <<117,768>>>>, <<250,
    <<117,769>>>>, <<251, <<117,770>>>>, <<252, <<117,776>>>>, <<253,
    <<121,769>>>>, <<255, <<121,776>>>>, <<256, <<65,772>>>>, <<257,
    <<97,772>>>>, <<258, <<65,774>>>>, <<259, <<97,774>>>>, <<260,
    <<65,808>>>>, <<261, <<97,808>>>>, <<262, <<67,769>>>>, <<263,
    <<99,769>>>>, <<264, <<67,770>>>>, <<265, <<99,770>>>>, <<266,
    <<67,775>>>>, <<267, <<99,775>>>>, <<268, <<67,780>>>>, <<269,
    <<99,780>>>>, <<270, <<68,780>>>>, <<271, <<100,780>>>>, <<274,
    <<69,772>>>>, <<275, <<101,772>>>>, <<276, <<69,774>>>>, <<277,
    <<101,774>>>>, <<278, <<69,775>>>>, <<279, <<101,775>>>>, <<280,
    <<69,808>>>>, <<281, <<101,808>>>>, <<282, <<69,780>>>>, <<283,
    <<101,780>>>>, <<284, <<71,770>>>>, <<285, <<103,770>>>>, <<286,
    <<71,774>>>>, <<287, <<103,774>>>>, <<288, <<71,775>>>>, <<289,
    <<103,775>>>>, <<290, <<71,807>>>>, <<291, <<103,807>>>>, <<292,
    <<72,770>>>>, <<293, <<104,770>>>>, <<296, <<73,771>>>>, <<297,
    <<105,771>>>>, <<298, <<73,772>>>>, <<299, <<105,772>>>>, <<300,
    <<73,774>>>>, <<301, <<105,774>>>>, <<302, <<73,808>>>>, <<303,
    <<105,808>>>>, <<304, <<73,775>>>>, <<306, <<73,74>>>>, <<307,
    <<105,106>>>>, <<308, <<74,770>>>>, <<309, <<106,770>>>>, <<310,
    <<75,807>>>>, <<311, <<107,807>>>>, <<313, <<76,769>>>>, <<314,
    <<108,769>>>>, <<315, <<76,807>>>>, <<316, <<108,807>>>>, <<317,
    <<76,780>>>>, <<318, <<108,780>>>>, <<319, <<76,183>>>>, <<320,
    <<108,183>>>>, <<323, <<78,769>>>>, <<324, <<110,769>>>>, <<325,
    <<78,807>>>>, <<326, <<110,807>>>>, <<327, <<78,780>>>>, <<328,
    <<110,780>>>>, <<329, <<700,110>>>>, <<332, <<79,772>>>>, <<333,
    <<111,772>>>>, <<334, <<79,774>>>>, <<335, <<111,774>>>>, <<336,
    <<79,779>>>>, <<337, <<111,779>>>>, <<340, <<82,769>>>>, <<341,
    <<114,769>>>>, <<342, <<82,807>>>>, <<343, <<114,807>>>>, <<344,
    <<82,780>>>>, <<345, <<114,780>>>>, <<346, <<83,769>>>>, <<347,
    <<115,769>>>>, <<348, <<83,770>>>>, <<349, <<115,770>>>>, <<350,
    <<83,807>>>>, <<351, <<115,807>>>>, <<352, <<83,780>>>>, <<353,
    <<115,780>>>>, <<354, <<84,807>>>>, <<355, <<116,807>>>>, <<356,
    <<84,780>>>>, <<357, <<116,780>>>>, <<360, <<85,771>>>>, <<361,
    <<117,771>>>>, <<362, <<85,772>>>>, <<363, <<117,772>>>>, <<364,
    <<85,774>>>>, <<365, <<117,774>>>>, <<366, <<85,778>>>>, <<367,
    <<117,778>>>>, <<368, <<85,779>>>>, <<369, <<117,779>>>>, <<370,
    <<85,808>>>>, <<371, <<117,808>>>>, <<372, <<87,770>>>>, <<373,
    <<119,770>>>>, <<374, <<89,770>>>>, <<375, <<121,770>>>>, <<376,
    <<89,776>>>>, <<377, <<90,769>>>>, <<378, <<122,769>>>>, <<379,
    <<90,775>>>>, <<380, <<122,775>>>>, <<381, <<90,780>>>>, <<382,
    <<122,780>>>>, <<383, <<115>>>>, <<416, <<79,795>>>>, <<417,
    <<111,795>>>>, <<431, <<85,795>>>>, <<432, <<117,795>>>>, <<452,
    <<68,90,780>>>>, <<453, <<68,122,780>>>>, <<454, <<100,122,780>>>>, <<455,
    <<76,74>>>>, <<456, <<76,106>>>>, <<457, <<108,106>>>>, <<458,
    <<78,74>>>>, <<459, <<78,106>>>>, <<460, <<110,106>>>>, <<461,
    <<65,780>>>>, <<462, <<97,780>>>>, <<463, <<73,780>>>>, <<464,
    <<105,780>>>>, <<465, <<79,780>>>>, <<466, <<111,780>>>>, <<467,
    <<85,780>>>>, <<468, <<117,780>>>>, <<469, <<85,776,772>>>>, <<470,
    <<117,776,772>>>>, <<471, <<85,776,769>>>>, <<472, <<117,776,769>>>>,
    <<473, <<85,776,780>>>>, <<474, <<117,776,780>>>>, <<475,
    <<85,776,768>>>>, <<476, <<117,776,768>>>>, <<478, <<65,776,772>>>>,
    <<479, <<97,776,772>>>>, <<480, <<65,775,772>>>>, <<481, <<97,775,772>>>>,
    <<482, <<198,772>>>>, <<483, <<230,772>>>>, <<486, <<71,780>>>>, <<487,
    <<103,780>>>>, <<488, <<75,780>>>>, <<489, <<107,780>>>>, <<490,
    <<79,808>>>>, <<491, <<111,808>>>>, <<492, <<79,808,772>>>>, <<493,
    <<111,808,772>>>>, <<494, <<439,780>>>>, <<495, <<658,780>>>>, <<496,
    <<106,780>>>>, <<497, <<68,90>>>>, <<498, <<68,122>>>>, <<499,
    <<100,122>>>>, <<500, <<71,769>>>>, <<501, <<103,769>>>>, <<504,
    <<78,768>>>>, <<505, <<110,768>>>>, <<506, <<65,778,769>>>>, <<507,
    <<97,778,769>>>>, <<508, <<198,769>>>>, <<509, <<230,769>>>>, <<510,
    <<216,769>>>>, <<511, <<248,769>>>>, <<512, <<65,783>>>>, <<513,
    <<97,783>>>>, <<514, <<65,785>>>>, <<515, <<97,785>>>>, <<516,
    <<69,783>>>>, <<517, <<101,783>>>>, <<518, <<69,785>>>>, <<519,
    <<101,785>>>>, <<520, <<73,783>>>>, <<521, <<105,783>>>>, <<522,
    <<73,785>>>>, <<523, <<105,785>>>>, <<524, <<79,783>>>>, <<525,
    <<111,783>>>>, <<526, <<79,785>>>>, <<527, <<111,785>>>>, <<528,
    <<82,783>>>>, <<529, <<114,783>>>>, <<530, <<82,785>>>>, <<531,
    <<114,785>>>>, <<532, <<85,783>>>>, <<533, <<117,783>>>>, <<534,
    <<85,785>>>>, <<535, <<117,785>>>>, <<536, <<83,806>>>>, <<537,
    <<115,806>>>>, <<538, <<84,806>>>>, <<539, <<116,806>>>>, <<542,
    <<72,780>>>>, <<543, <<104,780>>>>, <<550, <<65,775>>>>, <<551,
    <<97,775>>>>, <<552, <<69,807>>>>, <<553, <<101,807>>>>, <<554,
    <<79,776,772>>>>, <<555, <<111,776,772>>>>, <<556, <<79,771,772>>>>,
    <<557, <<111,771,772>>>>, <<558, <<79,775>>>>, <<559, <<111,775>>>>,
    <<560, <<79,775,772>>>>, <<561, <<111,775,772>>>>, <<562, <<89,772>>>>,
    <<563, <<121,772>>>>, <<688, <<104>>>>, <<689, <<614>>>>, <<690,
    <<106>>>>, <<691, <<114>>>>, <<692, <<633>>>>, <<693, <<635>>>>, <<694,
    <<641>>>>, <<695, <<119>>>>, <<696, <<121>>>>, <<728, <<32,774>>>>, <<729,
    <<32,775>>>>, <<730, <<32,778>>>>, <<731, <<32,808>>>>, <<732,
    <<32,771>>>>, <<733, <<32,779>>>>, <<736, <<611>>>>, <<737, <<108>>>>,
    <<738, <<115>>>>, <<739, <<120>>>>, <<740, <<661>>>>, <<832, <<768>>>>,
    <<833, <<769>>>>, <<835, <<787>>>>, <<836, <<776,769>>>>, <<884,
    <<697>>>>, <<890, <<32,837>>>>, <<894, <<59>>>>, <<900, <<32,769>>>>,
    <<901, <<32,776,769>>>>, <<902, <<913,769>>>>, <<903, <<183>>>>, <<904,
    <<917,769>>>>, <<905, <<919,769>>>>, <<906, <<921,769>>>>, <<908,
    <<927,769>>>>, <<910, <<933,769>>>>, <<911, <<937,769>>>>, <<912,
    <<953,776,769>>>>, <<938, <<921,776>>>>, <<939, <<933,776>>>>, <<940,
    <<945,769>>>>, <<941, <<949,769>>>>, <<942, <<951,769>>>>, <<943,
    <<953,769>>>>, <<944, <<965,776,769>>>>, <<970, <<953,776>>>>, <<971,
    <<965,776>>>>, <<972, <<959,769>>>>, <<973, <<965,769>>>>, <<974,
    <<969,769>>>>, <<976, <<946>>>>, <<977, <<952>>>>, <<978, <<933>>>>,
    <<979, <<933,769>>>>, <<980, <<933,776>>>>, <<981, <<966>>>>, <<982,
    <<960>>>>, <<1008, <<954>>>>, <<1009, <<961>>>>, <<1010, <<962>>>>,
    <<1012, <<920>>>>, <<1013, <<949>>>>, <<1017, <<931>>>>, <<1024,
    <<1045,768>>>>, <<1025, <<1045,776>>>>, <<1027, <<1043,769>>>>, <<1031,
    <<1030,776>>>>, <<1036, <<1050,769>>>>, <<1037, <<1048,768>>>>, <<1038,
    <<1059,774>>>>, <<1049, <<1048,774>>>>, <<1081, <<1080,774>>>>, <<1104,
    <<1077,768>>>>, <<1105, <<1077,776>>>>, <<1107, <<1075,769>>>>, <<1111,
    <<1110,776>>>>, <<1116, <<1082,769>>>>, <<1117, <<1080,768>>>>, <<1118,
    <<1091,774>>>>, <<1142, <<1140,783>>>>, <<1143, <<1141,783>>>>, <<1217,
    <<1046,774>>>>, <<1218, <<1078,774>>>>, <<1232, <<1040,774>>>>, <<1233,
    <<1072,774>>>>, <<1234, <<1040,776>>>>, <<1235, <<1072,776>>>>, <<1238,
    <<1045,774>>>>, <<1239, <<1077,774>>>>, <<1242, <<1240,776>>>>, <<1243,
    <<1241,776>>>>, <<1244, <<1046,776>>>>, <<1245, <<1078,776>>>>, <<1246,
    <<1047,776>>>>, <<1247, <<1079,776>>>>, <<1250, <<1048,772>>>>, <<1251,
    <<1080,772>>>>, <<1252, <<1048,776>>>>, <<1253, <<1080,776>>>>, <<1254,
    <<1054,776>>>>, <<1255, <<1086,776>>>>, <<1258, <<1256,776>>>>, <<1259,
    <<1257,776>>>>, <<1260, <<1069,776>>>>, <<1261, <<1101,776>>>>, <<1262,
    <<1059,772>>>>, <<1263, <<1091,772>>>>, <<1264, <<1059,776>>>>, <<1265,
    <<1091,776>>>>, <<1266, <<1059,779>>>>, <<1267, <<1091,779>>>>, <<1268,
    <<1063,776>>>>, <<1269, <<1095,776>>>>, <<1272, <<1067,776>>>>, <<1273,
    <<1099,776>>>>, <<1415, <<1381,1410>>>>, <<1570, <<1575,1619>>>>, <<1571,
    <<1575,1620>>>>, <<1572, <<1608,1620>>>>, <<1573, <<1575,1621>>>>, <<1574,
    <<1610,1620>>>>, <<1653, <<1575,1652>>>>, <<1654, <<1608,1652>>>>, <<1655,
    <<1735,1652>>>>, <<1656, <<1610,1652>>>>, <<1728, <<1749,1620>>>>, <<1730,
    <<1729,1620>>>>, <<1747, <<1746,1620>>>>, <<2345, <<2344,2364>>>>, <<2353,
    <<2352,2364>>>>, <<2356, <<2355,2364>>>>, <<2392, <<2325,2364>>>>, <<2393,
    <<2326,2364>>>>, <<2394, <<2327,2364>>>>, <<2395, <<2332,2364>>>>, <<2396,
    <<2337,2364>>>>, <<2397, <<2338,2364>>>>, <<2398, <<2347,2364>>>>, <<2399,
    <<2351,2364>>>>, <<2507, <<2503,2494>>>>, <<2508, <<2503,2519>>>>, <<2524,
    <<2465,2492>>>>, <<2525, <<2466,2492>>>>, <<2527, <<2479,2492>>>>, <<2611,
    <<2610,2620>>>>, <<2614, <<2616,2620>>>>, <<2649, <<2582,2620>>>>, <<2650,
    <<2583,2620>>>>, <<2651, <<2588,2620>>>>, <<2654, <<2603,2620>>>>, <<2888,
    <<2887,2902>>>>, <<2891, <<2887,2878>>>>, <<2892, <<2887,2903>>>>, <<2908,
    <<2849,2876>>>>, <<2909, <<2850,2876>>>>, <<2964, <<2962,3031>>>>, <<3018,
    <<3014,3006>>>>, <<3019, <<3015,3006>>>>, <<3020, <<3014,3031>>>>, <<3144,
    <<3142,3158>>>>, <<3264, <<3263,3285>>>>, <<3271, <<3270,3285>>>>, <<3272,
    <<3270,3286>>>>, <<3274, <<3270,3266>>>>, <<3275, <<3270,3266,3285>>>>,
    <<3402, <<3398,3390>>>>, <<3403, <<3399,3390>>>>, <<3404, <<3398,3415>>>>,
    <<3546, <<3545,3530>>>>, <<3548, <<3545,3535>>>>, <<3549,
    <<3545,3535,3530>>>>, <<3550, <<3545,3551>>>>, <<3635, <<3661,3634>>>>,
    <<3763, <<3789,3762>>>>, <<3804, <<3755,3737>>>>, <<3805, <<3755,3745>>>>,
    <<3852, <<3851>>>>, <<3907, <<3906,4023>>>>, <<3917, <<3916,4023>>>>,
    <<3922, <<3921,4023>>>>, <<3927, <<3926,4023>>>>, <<3932, <<3931,4023>>>>,
    <<3945, <<3904,4021>>>>, <<3955, <<3953,3954>>>>, <<3957, <<3953,3956>>>>,
    <<3958, <<4018,3968>>>>, <<3959, <<4018,3953,3968>>>>, <<3960,
    <<4019,3968>>>>, <<3961, <<4019,3953,3968>>>>, <<3969, <<3953,3968>>>>,
    <<3987, <<3986,4023>>>>, <<3997, <<3996,4023>>>>, <<4002, <<4001,4023>>>>,
    <<4007, <<4006,4023>>>>, <<4012, <<4011,4023>>>>, <<4025, <<3984,4021>>>>,
    <<4134, <<4133,4142>>>>, <<4348, <<4316>>>>, <<6918, <<6917,6965>>>>,
    <<6920, <<6919,6965>>>>, <<6922, <<6921,6965>>>>, <<6924, <<6923,6965>>>>,
    <<6926, <<6925,6965>>>>, <<6930, <<6929,6965>>>>, <<6971, <<6970,6965>>>>,
    <<6973, <<6972,6965>>>>, <<6976, <<6974,6965>>>>, <<6977, <<6975,6965>>>>,
    <<6979, <<6978,6965>>>>, <<7468, <<65>>>>, <<7469, <<198>>>>, <<7470,
    <<66>>>>, <<7472, <<68>>>>, <<7473, <<69>>>>, <<7474, <<398>>>>, <<7475,
    <<71>>>>, <<7476, <<72>>>>, <<7477, <<73>>>>, <<7478, <<74>>>>, <<7479,
    <<75>>>>, <<7480, <<76>>>>, <<7481, <<77>>>>, <<7482, <<78>>>>, <<7484,
    <<79>>>>, <<7485, <<546>>>>, <<7486, <<80>>>>, <<7487, <<82>>>>, <<7488,
    <<84>>>>, <<7489, <<85>>>>, <<7490, <<87>>>>, <<7491, <<97>>>>, <<7492,
    <<592>>>>, <<7493, <<593>>>>, <<7494, <<7426>>>>, <<7495, <<98>>>>,
    <<7496, <<100>>>>, <<7497, <<101>>>>, <<7498, <<601>>>>, <<7499,
    <<603>>>>, <<7500, <<604>>>>, <<7501, <<103>>>>, <<7503, <<107>>>>,
    <<7504, <<109>>>>, <<7505, <<331>>>>, <<7506, <<111>>>>, <<7507,
    <<596>>>>, <<7508, <<7446>>>>, <<7509, <<7447>>>>, <<7510, <<112>>>>,
    <<7511, <<116>>>>, <<7512, <<117>>>>, <<7513, <<7453>>>>, <<7514,
    <<623>>>>, <<7515, <<118>>>>, <<7516, <<7461>>>>, <<7517, <<946>>>>,
    <<7518, <<947>>>>, <<7519, <<948>>>>, <<7520, <<966>>>>, <<7521,
    <<967>>>>, <<7522, <<105>>>>, <<7523, <<114>>>>, <<7524, <<117>>>>,
    <<7525, <<118>>>>, <<7526, <<946>>>>, <<7527, <<947>>>>, <<7528,
    <<961>>>>, <<7529, <<966>>>>, <<7530, <<967>>>>, <<7544, <<1085>>>>,
    <<7579, <<594>>>>, <<7580, <<99>>>>, <<7581, <<597>>>>, <<7582, <<240>>>>,
    <<7583, <<604>>>>, <<7584, <<102>>>>, <<7585, <<607>>>>, <<7586,
    <<609>>>>, <<7587, <<613>>>>, <<7588, <<616>>>>, <<7589, <<617>>>>,
    <<7590, <<618>>>>, <<7591, <<7547>>>>, <<7592, <<669>>>>, <<7593,
    <<621>>>>, <<7594, <<7557>>>>, <<7595, <<671>>>>, <<7596, <<625>>>>,
    <<7597, <<624>>>>, <<7598, <<626>>>>, <<7599, <<627>>>>, <<7600,
    <<628>>>>, <<7601, <<629>>>>, <<7602, <<632>>>>, <<7603, <<642>>>>,
    <<7604, <<643>>>>, <<7605, <<427>>>>, <<7606, <<649>>>>, <<7607,
    <<650>>>>, <<7608, <<7452>>>>, <<7609, <<651>>>>, <<7610, <<652>>>>,
    <<7611, <<122>>>>, <<7612, <<656>>>>, <<7613, <<657>>>>, <<7614,
    <<658>>>>, <<7615, <<952>>>>, <<7680, <<65,805>>>>, <<7681, <<97,805>>>>,
    <<7682, <<66,775>>>>, <<7683, <<98,775>>>>, <<7684, <<66,803>>>>, <<7685,
    <<98,803>>>>, <<7686, <<66,817>>>>, <<7687, <<98,817>>>>, <<7688,
    <<67,807,769>>>>, <<7689, <<99,807,769>>>>, <<7690, <<68,775>>>>, <<7691,
    <<100,775>>>>, <<7692, <<68,803>>>>, <<7693, <<100,803>>>>, <<7694,
    <<68,817>>>>, <<7695, <<100,817>>>>, <<7696, <<68,807>>>>, <<7697,
    <<100,807>>>>, <<7698, <<68,813>>>>, <<7699, <<100,813>>>>, <<7700,
    <<69,772,768>>>>, <<7701, <<101,772,768>>>>, <<7702, <<69,772,769>>>>,
    <<7703, <<101,772,769>>>>, <<7704, <<69,813>>>>, <<7705, <<101,813>>>>,
    <<7706, <<69,816>>>>, <<7707, <<101,816>>>>, <<7708, <<69,807,774>>>>,
    <<7709, <<101,807,774>>>>, <<7710, <<70,775>>>>, <<7711, <<102,775>>>>,
    <<7712, <<71,772>>>>, <<7713, <<103,772>>>>, <<7714, <<72,775>>>>, <<7715,
    <<104,775>>>>, <<7716, <<72,803>>>>, <<7717, <<104,803>>>>, <<7718,
    <<72,776>>>>, <<7719, <<104,776>>>>, <<7720, <<72,807>>>>, <<7721,
    <<104,807>>>>, <<7722, <<72,814>>>>, <<7723, <<104,814>>>>, <<7724,
    <<73,816>>>>, <<7725, <<105,816>>>>, <<7726, <<73,776,769>>>>, <<7727,
    <<105,776,769>>>>, <<7728, <<75,769>>>>, <<7729, <<107,769>>>>, <<7730,
    <<75,803>>>>, <<7731, <<107,803>>>>, <<7732, <<75,817>>>>, <<7733,
    <<107,817>>>>, <<7734, <<76,803>>>>, <<7735, <<108,803>>>>, <<7736,
    <<76,803,772>>>>, <<7737, <<108,803,772>>>>, <<7738, <<76,817>>>>, <<7739,
    <<108,817>>>>, <<7740, <<76,813>>>>, <<7741, <<108,813>>>>, <<7742,
    <<77,769>>>>, <<7743, <<109,769>>>>, <<7744, <<77,775>>>>, <<7745,
    <<109,775>>>>, <<7746, <<77,803>>>>, <<7747, <<109,803>>>>, <<7748,
    <<78,775>>>>, <<7749, <<110,775>>>>, <<7750, <<78,803>>>>, <<7751,
    <<110,803>>>>, <<7752, <<78,817>>>>, <<7753, <<110,817>>>>, <<7754,
    <<78,813>>>>, <<7755, <<110,813>>>>, <<7756, <<79,771,769>>>>, <<7757,
    <<111,771,769>>>>, <<7758, <<79,771,776>>>>, <<7759, <<111,771,776>>>>,
    <<7760, <<79,772,768>>>>, <<7761, <<111,772,768>>>>, <<7762,
    <<79,772,769>>>>, <<7763, <<111,772,769>>>>, <<7764, <<80,769>>>>, <<7765,
    <<112,769>>>>, <<7766, <<80,775>>>>, <<7767, <<112,775>>>>, <<7768,
    <<82,775>>>>, <<7769, <<114,775>>>>, <<7770, <<82,803>>>>, <<7771,
    <<114,803>>>>, <<7772, <<82,803,772>>>>, <<7773, <<114,803,772>>>>,
    <<7774, <<82,817>>>>, <<7775, <<114,817>>>>, <<7776, <<83,775>>>>, <<7777,
    <<115,775>>>>, <<7778, <<83,803>>>>, <<7779, <<115,803>>>>, <<7780,
    <<83,769,775>>>>, <<7781, <<115,769,775>>>>, <<7782, <<83,780,775>>>>,
    <<7783, <<115,780,775>>>>, <<7784, <<83,803,775>>>>, <<7785,
    <<115,803,775>>>>, <<7786, <<84,775>>>>, <<7787, <<116,775>>>>, <<7788,
    <<84,803>>>>, <<7789, <<116,803>>>>, <<7790, <<84,817>>>>, <<7791,
    <<116,817>>>>, <<7792, <<84,813>>>>, <<7793, <<116,813>>>>, <<7794,
    <<85,804>>>>, <<7795, <<117,804>>>>, <<7796, <<85,816>>>>, <<7797,
    <<117,816>>>>, <<7798, <<85,813>>>>, <<7799, <<117,813>>>>, <<7800,
    <<85,771,769>>>>, <<7801, <<117,771,769>>>>, <<7802, <<85,772,776>>>>,
    <<7803, <<117,772,776>>>>, <<7804, <<86,771>>>>, <<7805, <<118,771>>>>,
    <<7806, <<86,803>>>>, <<7807, <<118,803>>>>, <<7808, <<87,768>>>>, <<7809,
    <<119,768>>>>, <<7810, <<87,769>>>>, <<7811, <<119,769>>>>, <<7812,
    <<87,776>>>>, <<7813, <<119,776>>>>, <<7814, <<87,775>>>>, <<7815,
    <<119,775>>>>, <<7816, <<87,803>>>>, <<7817, <<119,803>>>>, <<7818,
    <<88,775>>>>, <<7819, <<120,775>>>>, <<7820, <<88,776>>>>, <<7821,
    <<120,776>>>>, <<7822, <<89,775>>>>, <<7823, <<121,775>>>>, <<7824,
    <<90,770>>>>, <<7825, <<122,770>>>>, <<7826, <<90,803>>>>, <<7827,
    <<122,803>>>>, <<7828, <<90,817>>>>, <<7829, <<122,817>>>>, <<7830,
    <<104,817>>>>, <<7831, <<116,776>>>>, <<7832, <<119,778>>>>, <<7833,
    <<121,778>>>>, <<7834, <<97,702>>>>, <<7835, <<115,775>>>>, <<7840,
    <<65,803>>>>, <<7841, <<97,803>>>>, <<7842, <<65,777>>>>, <<7843,
    <<97,777>>>>, <<7844, <<65,770,769>>>>, <<7845, <<97,770,769>>>>, <<7846,
    <<65,770,768>>>>, <<7847, <<97,770,768>>>>, <<7848, <<65,770,777>>>>,
    <<7849, <<97,770,777>>>>, <<7850, <<65,770,771>>>>, <<7851,
    <<97,770,771>>>>, <<7852, <<65,803,770>>>>, <<7853, <<97,803,770>>>>,
    <<7854, <<65,774,769>>>>, <<7855, <<97,774,769>>>>, <<7856,
    <<65,774,768>>>>, <<7857, <<97,774,768>>>>, <<7858, <<65,774,777>>>>,
    <<7859, <<97,774,777>>>>, <<7860, <<65,774,771>>>>, <<7861,
    <<97,774,771>>>>, <<7862, <<65,803,774>>>>, <<7863, <<97,803,774>>>>,
    <<7864, <<69,803>>>>, <<7865, <<101,803>>>>, <<7866, <<69,777>>>>, <<7867,
    <<101,777>>>>, <<7868, <<69,771>>>>, <<7869, <<101,771>>>>, <<7870,
    <<69,770,769>>>>, <<7871, <<101,770,769>>>>, <<7872, <<69,770,768>>>>,
    <<7873, <<101,770,768>>>>, <<7874, <<69,770,777>>>>, <<7875,
    <<101,770,777>>>>, <<7876, <<69,770,771>>>>, <<7877, <<101,770,771>>>>,
    <<7878, <<69,803,770>>>>, <<7879, <<101,803,770>>>>, <<7880, <<73,777>>>>,
    <<7881, <<105,777>>>>, <<7882, <<73,803>>>>, <<7883, <<105,803>>>>,
    <<7884, <<79,803>>>>, <<7885, <<111,803>>>>, <<7886, <<79,777>>>>, <<7887,
    <<111,777>>>>, <<7888, <<79,770,769>>>>, <<7889, <<111,770,769>>>>,
    <<7890, <<79,770,768>>>>, <<7891, <<111,770,768>>>>, <<7892,
    <<79,770,777>>>>, <<7893, <<111,770,777>>>>, <<7894, <<79,770,771>>>>,
    <<7895, <<111,770,771>>>>, <<7896, <<79,803,770>>>>, <<7897,
    <<111,803,770>>>>, <<7898, <<79,795,769>>>>, <<7899, <<111,795,769>>>>,
    <<7900, <<79,795,768>>>>, <<7901, <<111,795,768>>>>, <<7902,
    <<79,795,777>>>>, <<7903, <<111,795,777>>>>, <<7904, <<79,795,771>>>>,
    <<7905, <<111,795,771>>>>, <<7906, <<79,795,803>>>>, <<7907,
    <<111,795,803>>>>, <<7908, <<85,803>>>>, <<7909, <<117,803>>>>, <<7910,
    <<85,777>>>>, <<7911, <<117,777>>>>, <<7912, <<85,795,769>>>>, <<7913,
    <<117,795,769>>>>, <<7914, <<85,795,768>>>>, <<7915, <<117,795,768>>>>,
    <<7916, <<85,795,777>>>>, <<7917, <<117,795,777>>>>, <<7918,
    <<85,795,771>>>>, <<7919, <<117,795,771>>>>, <<7920, <<85,795,803>>>>,
    <<7921, <<117,795,803>>>>, <<7922, <<89,768>>>>, <<7923, <<121,768>>>>,
    <<7924, <<89,803>>>>, <<7925, <<121,803>>>>, <<7926, <<89,777>>>>, <<7927,
    <<121,777>>>>, <<7928, <<89,771>>>>, <<7929, <<121,771>>>>, <<7936,
    <<945,787>>>>, <<7937, <<945,788>>>>, <<7938, <<945,787,768>>>>, <<7939,
    <<945,788,768>>>>, <<7940, <<945,787,769>>>>, <<7941, <<945,788,769>>>>,
    <<7942, <<945,787,834>>>>, <<7943, <<945,788,834>>>>, <<7944,
    <<913,787>>>>, <<7945, <<913,788>>>>, <<7946, <<913,787,768>>>>, <<7947,
    <<913,788,768>>>>, <<7948, <<913,787,769>>>>, <<7949, <<913,788,769>>>>,
    <<7950, <<913,787,834>>>>, <<7951, <<913,788,834>>>>, <<7952,
    <<949,787>>>>, <<7953, <<949,788>>>>, <<7954, <<949,787,768>>>>, <<7955,
    <<949,788,768>>>>, <<7956, <<949,787,769>>>>, <<7957, <<949,788,769>>>>,
    <<7960, <<917,787>>>>, <<7961, <<917,788>>>>, <<7962, <<917,787,768>>>>,
    <<7963, <<917,788,768>>>>, <<7964, <<917,787,769>>>>, <<7965,
    <<917,788,769>>>>, <<7968, <<951,787>>>>, <<7969, <<951,788>>>>, <<7970,
    <<951,787,768>>>>, <<7971, <<951,788,768>>>>, <<7972, <<951,787,769>>>>,
    <<7973, <<951,788,769>>>>, <<7974, <<951,787,834>>>>, <<7975,
    <<951,788,834>>>>, <<7976, <<919,787>>>>, <<7977, <<919,788>>>>, <<7978,
    <<919,787,768>>>>, <<7979, <<919,788,768>>>>, <<7980, <<919,787,769>>>>,
    <<7981, <<919,788,769>>>>, <<7982, <<919,787,834>>>>, <<7983,
    <<919,788,834>>>>, <<7984, <<953,787>>>>, <<7985, <<953,788>>>>, <<7986,
    <<953,787,768>>>>, <<7987, <<953,788,768>>>>, <<7988, <<953,787,769>>>>,
    <<7989, <<953,788,769>>>>, <<7990, <<953,787,834>>>>, <<7991,
    <<953,788,834>>>>, <<7992, <<921,787>>>>, <<7993, <<921,788>>>>, <<7994,
    <<921,787,768>>>>, <<7995, <<921,788,768>>>>, <<7996, <<921,787,769>>>>,
    <<7997, <<921,788,769>>>>, <<7998, <<921,787,834>>>>, <<7999,
    <<921,788,834>>>>, <<8000, <<959,787>>>>, <<8001, <<959,788>>>>, <<8002,
    <<959,787,768>>>>, <<8003, <<959,788,768>>>>, <<8004, <<959,787,769>>>>,
    <<8005, <<959,788,769>>>>, <<8008, <<927,787>>>>, <<8009, <<927,788>>>>,
    <<8010, <<927,787,768>>>>, <<8011, <<927,788,768>>>>, <<8012,
    <<927,787,769>>>>, <<8013, <<927,788,769>>>>, <<8016, <<965,787>>>>,
    <<8017, <<965,788>>>>, <<8018, <<965,787,768>>>>, <<8019,
    <<965,788,768>>>>, <<8020, <<965,787,769>>>>, <<8021, <<965,788,769>>>>,
    <<8022, <<965,787,834>>>>, <<8023, <<965,788,834>>>>, <<8025,
    <<933,788>>>>, <<8027, <<933,788,768>>>>, <<8029, <<933,788,769>>>>,
    <<8031, <<933,788,834>>>>, <<8032, <<969,787>>>>, <<8033, <<969,788>>>>,
    <<8034, <<969,787,768>>>>, <<8035, <<969,788,768>>>>, <<8036,
    <<969,787,769>>>>, <<8037, <<969,788,769>>>>, <<8038, <<969,787,834>>>>,
    <<8039, <<969,788,834>>>>, <<8040, <<937,787>>>>, <<8041, <<937,788>>>>,
    <<8042, <<937,787,768>>>>, <<8043, <<937,788,768>>>>, <<8044,
    <<937,787,769>>>>, <<8045, <<937,788,769>>>>, <<8046, <<937,787,834>>>>,
    <<8047, <<937,788,834>>>>, <<8048, <<945,768>>>>, <<8049, <<945,769>>>>,
    <<8050, <<949,768>>>>, <<8051, <<949,769>>>>, <<8052, <<951,768>>>>,
    <<8053, <<951,769>>>>, <<8054, <<953,768>>>>, <<8055, <<953,769>>>>,
    <<8056, <<959,768>>>>, <<8057, <<959,769>>>>, <<8058, <<965,768>>>>,
    <<8059, <<965,769>>>>, <<8060, <<969,768>>>>, <<8061, <<969,769>>>>,
    <<8064, <<945,787,837>>>>, <<8065, <<945,788,837>>>>, <<8066,
    <<945,787,768,837>>>>, <<8067, <<945,788,768,837>>>>, <<8068,
    <<945,787,769,837>>>>, <<8069, <<945,788,769,837>>>>, <<8070,
    <<945,787,834,837>>>>, <<8071, <<945,788,834,837>>>>, <<8072,
    <<913,787,837>>>>, <<8073, <<913,788,837>>>>, <<8074,
    <<913,787,768,837>>>>, <<8075, <<913,788,768,837>>>>, <<8076,
    <<913,787,769,837>>>>, <<8077, <<913,788,769,837>>>>, <<8078,
    <<913,787,834,837>>>>, <<8079, <<913,788,834,837>>>>, <<8080,
    <<951,787,837>>>>, <<8081, <<951,788,837>>>>, <<8082,
    <<951,787,768,837>>>>, <<8083, <<951,788,768,837>>>>, <<8084,
    <<951,787,769,837>>>>, <<8085, <<951,788,769,837>>>>, <<8086,
    <<951,787,834,837>>>>, <<8087, <<951,788,834,837>>>>, <<8088,
    <<919,787,837>>>>, <<8089, <<919,788,837>>>>, <<8090,
    <<919,787,768,837>>>>, <<8091, <<919,788,768,837>>>>, <<8092,
    <<919,787,769,837>>>>, <<8093, <<919,788,769,837>>>>, <<8094,
    <<919,787,834,837>>>>, <<8095, <<919,788,834,837>>>>, <<8096,
    <<969,787,837>>>>, <<8097, <<969,788,837>>>>, <<8098,
    <<969,787,768,837>>>>, <<8099, <<969,788,768,837>>>>, <<8100,
    <<969,787,769,837>>>>, <<8101, <<969,788,769,837>>>>, <<8102,
    <<969,787,834,837>>>>, <<8103, <<969,788,834,837>>>>, <<8104,
    <<937,787,837>>>>, <<8105, <<937,788,837>>>>, <<8106,
    <<937,787,768,837>>>>, <<8107, <<937,788,768,837>>>>, <<8108,
    <<937,787,769,837>>>>, <<8109, <<937,788,769,837>>>>, <<8110,
    <<937,787,834,837>>>>, <<8111, <<937,788,834,837>>>>, <<8112,
    <<945,774>>>>, <<8113, <<945,772>>>>, <<8114, <<945,768,837>>>>, <<8115,
    <<945,837>>>>, <<8116, <<945,769,837>>>>, <<8118, <<945,834>>>>, <<8119,
    <<945,834,837>>>>, <<8120, <<913,774>>>>, <<8121, <<913,772>>>>, <<8122,
    <<913,768>>>>, <<8123, <<913,769>>>>, <<8124, <<913,837>>>>, <<8125,
    <<32,787>>>>, <<8126, <<953>>>>, <<8127, <<32,787>>>>, <<8128,
    <<32,834>>>>, <<8129, <<32,776,834>>>>, <<8130, <<951,768,837>>>>, <<8131,
    <<951,837>>>>, <<8132, <<951,769,837>>>>, <<8134, <<951,834>>>>, <<8135,
    <<951,834,837>>>>, <<8136, <<917,768>>>>, <<8137, <<917,769>>>>, <<8138,
    <<919,768>>>>, <<8139, <<919,769>>>>, <<8140, <<919,837>>>>, <<8141,
    <<32,787,768>>>>, <<8142, <<32,787,769>>>>, <<8143, <<32,787,834>>>>,
    <<8144, <<953,774>>>>, <<8145, <<953,772>>>>, <<8146, <<953,776,768>>>>,
    <<8147, <<953,776,769>>>>, <<8150, <<953,834>>>>, <<8151,
    <<953,776,834>>>>, <<8152, <<921,774>>>>, <<8153, <<921,772>>>>, <<8154,
    <<921,768>>>>, <<8155, <<921,769>>>>, <<8157, <<32,788,768>>>>, <<8158,
    <<32,788,769>>>>, <<8159, <<32,788,834>>>>, <<8160, <<965,774>>>>, <<8161,
    <<965,772>>>>, <<8162, <<965,776,768>>>>, <<8163, <<965,776,769>>>>,
    <<8164, <<961,787>>>>, <<8165, <<961,788>>>>, <<8166, <<965,834>>>>,
    <<8167, <<965,776,834>>>>, <<8168, <<933,774>>>>, <<8169, <<933,772>>>>,
    <<8170, <<933,768>>>>, <<8171, <<933,769>>>>, <<8172, <<929,788>>>>,
    <<8173, <<32,776,768>>>>, <<8174, <<32,776,769>>>>, <<8175, <<96>>>>,
    <<8178, <<969,768,837>>>>, <<8179, <<969,837>>>>, <<8180,
    <<969,769,837>>>>, <<8182, <<969,834>>>>, <<8183, <<969,834,837>>>>,
    <<8184, <<927,768>>>>, <<8185, <<927,769>>>>, <<8186, <<937,768>>>>,
    <<8187, <<937,769>>>>, <<8188, <<937,837>>>>, <<8189, <<32,769>>>>,
    <<8190, <<32,788>>>>, <<8192, <<32>>>>, <<8193, <<32>>>>, <<8194,
    <<32>>>>, <<8195, <<32>>>>, <<8196, <<32>>>>, <<8197, <<32>>>>, <<8198,
    <<32>>>>, <<8199, <<32>>>>, <<8200, <<32>>>>, <<8201, <<32>>>>, <<8202,
    <<32>>>>, <<8209, <<8208>>>>, <<8215, <<32,819>>>>, <<8228, <<46>>>>,
    <<8229, <<46,46>>>>, <<8230, <<46,46,46>>>>, <<8239, <<32>>>>, <<8243,
    <<8242,8242>>>>, <<8244, <<8242,8242,8242>>>>, <<8246, <<8245,8245>>>>,
    <<8247, <<8245,8245,8245>>>>, <<8252, <<33,33>>>>, <<8254, <<32,773>>>>,
    <<8263, <<63,63>>>>, <<8264, <<63,33>>>>, <<8265, <<33,63>>>>, <<8279,
    <<8242,8242,8242,8242>>>>, <<8287, <<32>>>>, <<8304, <<48>>>>, <<8305,
    <<105>>>>, <<8308, <<52>>>>, <<8309, <<53>>>>, <<8310, <<54>>>>, <<8311,
    <<55>>>>, <<8312, <<56>>>>, <<8313, <<57>>>>, <<8314, <<43>>>>, <<8315,
    <<8722>>>>, <<8316, <<61>>>>, <<8317, <<40>>>>, <<8318, <<41>>>>, <<8319,
    <<110>>>>, <<8320, <<48>>>>, <<8321, <<49>>>>, <<8322, <<50>>>>, <<8323,
    <<51>>>>, <<8324, <<52>>>>, <<8325, <<53>>>>, <<8326, <<54>>>>, <<8327,
    <<55>>>>, <<8328, <<56>>>>, <<8329, <<57>>>>, <<8330, <<43>>>>, <<8331,
    <<8722>>>>, <<8332, <<61>>>>, <<8333, <<40>>>>, <<8334, <<41>>>>, <<8336,
    <<97>>>>, <<8337, <<101>>>>, <<8338, <<111>>>>, <<8339, <<120>>>>, <<8340,
    <<601>>>>, <<8341, <<104>>>>, <<8342, <<107>>>>, <<8343, <<108>>>>,
    <<8344, <<109>>>>, <<8345, <<110>>>>, <<8346, <<112>>>>, <<8347,
    <<115>>>>, <<8348, <<116>>>>, <<8360, <<82,115>>>>, <<8448,
    <<97,47,99>>>>, <<8449, <<97,47,115>>>>, <<8450, <<67>>>>, <<8451,
    <<176,67>>>>, <<8453, <<99,47,111>>>>, <<8454, <<99,47,117>>>>, <<8455,
    <<400>>>>, <<8457, <<176,70>>>>, <<8458, <<103>>>>, <<8459, <<72>>>>,
    <<8460, <<72>>>>, <<8461, <<72>>>>, <<8462, <<104>>>>, <<8463, <<295>>>>,
    <<8464, <<73>>>>, <<8465, <<73>>>>, <<8466, <<76>>>>, <<8467, <<108>>>>,
    <<8469, <<78>>>>, <<8470, <<78,111>>>>, <<8473, <<80>>>>, <<8474,
    <<81>>>>, <<8475, <<82>>>>, <<8476, <<82>>>>, <<8477, <<82>>>>, <<8480,
    <<83,77>>>>, <<8481, <<84,69,76>>>>, <<8482, <<84,77>>>>, <<8484,
    <<90>>>>, <<8486, <<937>>>>, <<8488, <<90>>>>, <<8490, <<75>>>>, <<8491,
    <<65,778>>>>, <<8492, <<66>>>>, <<8493, <<67>>>>, <<8495, <<101>>>>,
    <<8496, <<69>>>>, <<8497, <<70>>>>, <<8499, <<77>>>>, <<8500, <<111>>>>,
    <<8501, <<1488>>>>, <<8502, <<1489>>>>, <<8503, <<1490>>>>, <<8504,
    <<1491>>>>, <<8505, <<105>>>>, <<8507, <<70,65,88>>>>, <<8508, <<960>>>>,
    <<8509, <<947>>>>, <<8510, <<915>>>>, <<8511, <<928>>>>, <<8512,
    <<8721>>>>, <<8517, <<68>>>>, <<8518, <<100>>>>, <<8519, <<101>>>>,
    <<8520, <<105>>>>, <<8521, <<106>>>>, <<8528, <<49,8260,55>>>>, <<8529,
    <<49,8260,57>>>>, <<8530, <<49,8260,49,48>>>>, <<8531, <<49,8260,51>>>>,
    <<8532, <<50,8260,51>>>>, <<8533, <<49,8260,53>>>>, <<8534,
    <<50,8260,53>>>>, <<8535, <<51,8260,53>>>>, <<8536, <<52,8260,53>>>>,
    <<8537, <<49,8260,54>>>>, <<8538, <<53,8260,54>>>>, <<8539,
    <<49,8260,56>>>>, <<8540, <<51,8260,56>>>>, <<8541, <<53,8260,56>>>>,
    <<8542, <<55,8260,56>>>>, <<8543, <<49,8260>>>>, <<8544, <<73>>>>, <<8545,
    <<73,73>>>>, <<8546, <<73,73,73>>>>, <<8547, <<73,86>>>>, <<8548,
    <<86>>>>, <<8549, <<86,73>>>>, <<8550, <<86,73,73>>>>, <<8551,
    <<86,73,73,73>>>>, <<8552, <<73,88>>>>, <<8553, <<88>>>>, <<8554,
    <<88,73>>>>, <<8555, <<88,73,73>>>>, <<8556, <<76>>>>, <<8557, <<67>>>>,
    <<8558, <<68>>>>, <<8559, <<77>>>>, <<8560, <<105>>>>, <<8561,
    <<105,105>>>>, <<8562, <<105,105,105>>>>, <<8563, <<105,118>>>>, <<8564,
    <<118>>>>, <<8565, <<118,105>>>>, <<8566, <<118,105,105>>>>, <<8567,
    <<118,105,105,105>>>>, <<8568, <<105,120>>>>, <<8569, <<120>>>>, <<8570,
    <<120,105>>>>, <<8571, <<120,105,105>>>>, <<8572, <<108>>>>, <<8573,
    <<99>>>>, <<8574, <<100>>>>, <<8575, <<109>>>>, <<8585, <<48,8260,51>>>>,
    <<8602, <<8592,824>>>>, <<8603, <<8594,824>>>>, <<8622, <<8596,824>>>>,
    <<8653, <<8656,824>>>>, <<8654, <<8660,824>>>>, <<8655, <<8658,824>>>>,
    <<8708, <<8707,824>>>>, <<8713, <<8712,824>>>>, <<8716, <<8715,824>>>>,
    <<8740, <<8739,824>>>>, <<8742, <<8741,824>>>>, <<8748, <<8747,8747>>>>,
    <<8749, <<8747,8747,8747>>>>, <<8751, <<8750,8750>>>>, <<8752,
    <<8750,8750,8750>>>>, <<8769, <<8764,824>>>>, <<8772, <<8771,824>>>>,
    <<8775, <<8773,824>>>>, <<8777, <<8776,824>>>>, <<8800, <<61,824>>>>,
    <<8802, <<8801,824>>>>, <<8813, <<8781,824>>>>, <<8814, <<60,824>>>>,
    <<8815, <<62,824>>>>, <<8816, <<8804,824>>>>, <<8817, <<8805,824>>>>,
    <<8820, <<8818,824>>>>, <<8821, <<8819,824>>>>, <<8824, <<8822,824>>>>,
    <<8825, <<8823,824>>>>, <<8832, <<8826,824>>>>, <<8833, <<8827,824>>>>,
    <<8836, <<8834,824>>>>, <<8837, <<8835,824>>>>, <<8840, <<8838,824>>>>,
    <<8841, <<8839,824>>>>, <<8876, <<8866,824>>>>, <<8877, <<8872,824>>>>,
    <<8878, <<8873,824>>>>, <<8879, <<8875,824>>>>, <<8928, <<8828,824>>>>,
    <<8929, <<8829,824>>>>, <<8930, <<8849,824>>>>, <<8931, <<8850,824>>>>,
    <<8938, <<8882,824>>>>, <<8939, <<8883,824>>>>, <<8940, <<8884,824>>>>,
    <<8941, <<8885,824>>>>, <<9001, <<12296>>>>, <<9002, <<12297>>>>, <<9312,
    <<49>>>>, <<9313, <<50>>>>, <<9314, <<51>>>>, <<9315, <<52>>>>, <<9316,
    <<53>>>>, <<9317, <<54>>>>, <<9318, <<55>>>>, <<9319, <<56>>>>, <<9320,
    <<57>>>>, <<9321, <<49,48>>>>, <<9322, <<49,49>>>>, <<9323, <<49,50>>>>,
    <<9324, <<49,51>>>>, <<9325, <<49,52>>>>, <<9326, <<49,53>>>>, <<9327,
    <<49,54>>>>, <<9328, <<49,55>>>>, <<9329, <<49,56>>>>, <<9330,
    <<49,57>>>>, <<9331, <<50,48>>>>, <<9332, <<40,49,41>>>>, <<9333,
    <<40,50,41>>>>, <<9334, <<40,51,41>>>>, <<9335, <<40,52,41>>>>, <<9336,
    <<40,53,41>>>>, <<9337, <<40,54,41>>>>, <<9338, <<40,55,41>>>>, <<9339,
    <<40,56,41>>>>, <<9340, <<40,57,41>>>>, <<9341, <<40,49,48,41>>>>, <<9342,
    <<40,49,49,41>>>>, <<9343, <<40,49,50,41>>>>, <<9344, <<40,49,51,41>>>>,
    <<9345, <<40,49,52,41>>>>, <<9346, <<40,49,53,41>>>>, <<9347,
    <<40,49,54,41>>>>, <<9348, <<40,49,55,41>>>>, <<9349, <<40,49,56,41>>>>,
    <<9350, <<40,49,57,41>>>>, <<9351, <<40,50,48,41>>>>, <<9352, <<49,46>>>>,
    <<9353, <<50,46>>>>, <<9354, <<51,46>>>>, <<9355, <<52,46>>>>, <<9356,
    <<53,46>>>>, <<9357, <<54,46>>>>, <<9358, <<55,46>>>>, <<9359,
    <<56,46>>>>, <<9360, <<57,46>>>>, <<9361, <<49,48,46>>>>, <<9362,
    <<49,49,46>>>>, <<9363, <<49,50,46>>>>, <<9364, <<49,51,46>>>>, <<9365,
    <<49,52,46>>>>, <<9366, <<49,53,46>>>>, <<9367, <<49,54,46>>>>, <<9368,
    <<49,55,46>>>>, <<9369, <<49,56,46>>>>, <<9370, <<49,57,46>>>>, <<9371,
    <<50,48,46>>>>, <<9372, <<40,97,41>>>>, <<9373, <<40,98,41>>>>, <<9374,
    <<40,99,41>>>>, <<9375, <<40,100,41>>>>, <<9376, <<40,101,41>>>>, <<9377,
    <<40,102,41>>>>, <<9378, <<40,103,41>>>>, <<9379, <<40,104,41>>>>, <<9380,
    <<40,105,41>>>>, <<9381, <<40,106,41>>>>, <<9382, <<40,107,41>>>>, <<9383,
    <<40,108,41>>>>, <<9384, <<40,109,41>>>>, <<9385, <<40,110,41>>>>, <<9386,
    <<40,111,41>>>>, <<9387, <<40,112,41>>>>, <<9388, <<40,113,41>>>>, <<9389,
    <<40,114,41>>>>, <<9390, <<40,115,41>>>>, <<9391, <<40,116,41>>>>, <<9392,
    <<40,117,41>>>>, <<9393, <<40,118,41>>>>, <<9394, <<40,119,41>>>>, <<9395,
    <<40,120,41>>>>, <<9396, <<40,121,41>>>>, <<9397, <<40,122,41>>>>, <<9398,
    <<65>>>>, <<9399, <<66>>>>, <<9400, <<67>>>>, <<9401, <<68>>>>, <<9402,
    <<69>>>>, <<9403, <<70>>>>, <<9404, <<71>>>>, <<9405, <<72>>>>, <<9406,
    <<73>>>>, <<9407, <<74>>>>, <<9408, <<75>>>>, <<9409, <<76>>>>, <<9410,
    <<77>>>>, <<9411, <<78>>>>, <<9412, <<79>>>>, <<9413, <<80>>>>, <<9414,
    <<81>>>>, <<9415, <<82>>>>, <<9416, <<83>>>>, <<9417, <<84>>>>, <<9418,
    <<85>>>>, <<9419, <<86>>>>, <<9420, <<87>>>>, <<9421, <<88>>>>, <<9422,
    <<89>>>>, <<9423, <<90>>>>, <<9424, <<97>>>>, <<9425, <<98>>>>, <<9426,
    <<99>>>>, <<9427, <<100>>>>, <<9428, <<101>>>>, <<9429, <<102>>>>, <<9430,
    <<103>>>>, <<9431, <<104>>>>, <<9432, <<105>>>>, <<9433, <<106>>>>,
    <<9434, <<107>>>>, <<9435, <<108>>>>, <<9436, <<109>>>>, <<9437,
    <<110>>>>, <<9438, <<111>>>>, <<9439, <<112>>>>, <<9440, <<113>>>>,
    <<9441, <<114>>>>, <<9442, <<115>>>>, <<9443, <<116>>>>, <<9444,
    <<117>>>>, <<9445, <<118>>>>, <<9446, <<119>>>>, <<9447, <<120>>>>,
    <<9448, <<121>>>>, <<9449, <<122>>>>, <<9450, <<48>>>>, <<10764,
    <<8747,8747,8747,8747>>>>, <<10868, <<58,58,61>>>>, <<10869, <<61,61>>>>,
    <<10870, <<61,61,61>>>>, <<10972, <<10973,824>>>>, <<11388, <<106>>>>,
    <<11389, <<86>>>>, <<11631, <<11617>>>>, <<11935, <<27597>>>>, <<12019,
    <<40863>>>>, <<12032, <<19968>>>>, <<12033, <<20008>>>>, <<12034,
    <<20022>>>>, <<12035, <<20031>>>>, <<12036, <<20057>>>>, <<12037,
    <<20101>>>>, <<12038, <<20108>>>>, <<12039, <<20128>>>>, <<12040,
    <<20154>>>>, <<12041, <<20799>>>>, <<12042, <<20837>>>>, <<12043,
    <<20843>>>>, <<12044, <<20866>>>>, <<12045, <<20886>>>>, <<12046,
    <<20907>>>>, <<12047, <<20960>>>>, <<12048, <<20981>>>>, <<12049,
    <<20992>>>>, <<12050, <<21147>>>>, <<12051, <<21241>>>>, <<12052,
    <<21269>>>>, <<12053, <<21274>>>>, <<12054, <<21304>>>>, <<12055,
    <<21313>>>>, <<12056, <<21340>>>>, <<12057, <<21353>>>>, <<12058,
    <<21378>>>>, <<12059, <<21430>>>>, <<12060, <<21448>>>>, <<12061,
    <<21475>>>>, <<12062, <<22231>>>>, <<12063, <<22303>>>>, <<12064,
    <<22763>>>>, <<12065, <<22786>>>>, <<12066, <<22794>>>>, <<12067,
    <<22805>>>>, <<12068, <<22823>>>>, <<12069, <<22899>>>>, <<12070,
    <<23376>>>>, <<12071, <<23424>>>>, <<12072, <<23544>>>>, <<12073,
    <<23567>>>>, <<12074, <<23586>>>>, <<12075, <<23608>>>>, <<12076,
    <<23662>>>>, <<12077, <<23665>>>>, <<12078, <<24027>>>>, <<12079,
    <<24037>>>>, <<12080, <<24049>>>>, <<12081, <<24062>>>>, <<12082,
    <<24178>>>>, <<12083, <<24186>>>>, <<12084, <<24191>>>>, <<12085,
    <<24308>>>>, <<12086, <<24318>>>>, <<12087, <<24331>>>>, <<12088,
    <<24339>>>>, <<12089, <<24400>>>>, <<12090, <<24417>>>>, <<12091,
    <<24435>>>>, <<12092, <<24515>>>>, <<12093, <<25096>>>>, <<12094,
    <<25142>>>>, <<12095, <<25163>>>>, <<12096, <<25903>>>>, <<12097,
    <<25908>>>>, <<12098, <<25991>>>>, <<12099, <<26007>>>>, <<12100,
    <<26020>>>>, <<12101, <<26041>>>>, <<12102, <<26080>>>>, <<12103,
    <<26085>>>>, <<12104, <<26352>>>>, <<12105, <<26376>>>>, <<12106,
    <<26408>>>>, <<12107, <<27424>>>>, <<12108, <<27490>>>>, <<12109,
    <<27513>>>>, <<12110, <<27571>>>>, <<12111, <<27595>>>>, <<12112,
    <<27604>>>>, <<12113, <<27611>>>>, <<12114, <<27663>>>>, <<12115,
    <<27668>>>>, <<12116, <<27700>>>>, <<12117, <<28779>>>>, <<12118,
    <<29226>>>>, <<12119, <<29238>>>>, <<12120, <<29243>>>>, <<12121,
    <<29247>>>>, <<12122, <<29255>>>>, <<12123, <<29273>>>>, <<12124,
    <<29275>>>>, <<12125, <<29356>>>>, <<12126, <<29572>>>>, <<12127,
    <<29577>>>>, <<12128, <<29916>>>>, <<12129, <<29926>>>>, <<12130,
    <<29976>>>>, <<12131, <<29983>>>>, <<12132, <<29992>>>>, <<12133,
    <<30000>>>>, <<12134, <<30091>>>>, <<12135, <<30098>>>>, <<12136,
    <<30326>>>>, <<12137, <<30333>>>>, <<12138, <<30382>>>>, <<12139,
    <<30399>>>>, <<12140, <<30446>>>>, <<12141, <<30683>>>>, <<12142,
    <<30690>>>>, <<12143, <<30707>>>>, <<12144, <<31034>>>>, <<12145,
    <<31160>>>>, <<12146, <<31166>>>>, <<12147, <<31348>>>>, <<12148,
    <<31435>>>>, <<12149, <<31481>>>>, <<12150, <<31859>>>>, <<12151,
    <<31992>>>>, <<12152, <<32566>>>>, <<12153, <<32593>>>>, <<12154,
    <<32650>>>>, <<12155, <<32701>>>>, <<12156, <<32769>>>>, <<12157,
    <<32780>>>>, <<12158, <<32786>>>>, <<12159, <<32819>>>>, <<12160,
    <<32895>>>>, <<12161, <<32905>>>>, <<12162, <<33251>>>>, <<12163,
    <<33258>>>>, <<12164, <<33267>>>>, <<12165, <<33276>>>>, <<12166,
    <<33292>>>>, <<12167, <<33307>>>>, <<12168, <<33311>>>>, <<12169,
    <<33390>>>>, <<12170, <<33394>>>>, <<12171, <<33400>>>>, <<12172,
    <<34381>>>>, <<12173, <<34411>>>>, <<12174, <<34880>>>>, <<12175,
    <<34892>>>>, <<12176, <<34915>>>>, <<12177, <<35198>>>>, <<12178,
    <<35211>>>>, <<12179, <<35282>>>>, <<12180, <<35328>>>>, <<12181,
    <<35895>>>>, <<12182, <<35910>>>>, <<12183, <<35925>>>>, <<12184,
    <<35960>>>>, <<12185, <<35997>>>>, <<12186, <<36196>>>>, <<12187,
    <<36208>>>>, <<12188, <<36275>>>>, <<12189, <<36523>>>>, <<12190,
    <<36554>>>>, <<12191, <<36763>>>>, <<12192, <<36784>>>>, <<12193,
    <<36789>>>>, <<12194, <<37009>>>>, <<12195, <<37193>>>>, <<12196,
    <<37318>>>>, <<12197, <<37324>>>>, <<12198, <<37329>>>>, <<12199,
    <<38263>>>>, <<12200, <<38272>>>>, <<12201, <<38428>>>>, <<12202,
    <<38582>>>>, <<12203, <<38585>>>>, <<12204, <<38632>>>>, <<12205,
    <<38737>>>>, <<12206, <<38750>>>>, <<12207, <<38754>>>>, <<12208,
    <<38761>>>>, <<12209, <<38859>>>>, <<12210, <<38893>>>>, <<12211,
    <<38899>>>>, <<12212, <<38913>>>>, <<12213, <<39080>>>>, <<12214,
    <<39131>>>>, <<12215, <<39135>>>>, <<12216, <<39318>>>>, <<12217,
    <<39321>>>>, <<12218, <<39340>>>>, <<12219, <<39592>>>>, <<12220,
    <<39640>>>>, <<12221, <<39647>>>>, <<12222, <<39717>>>>, <<12223,
    <<39727>>>>, <<12224, <<39730>>>>, <<12225, <<39740>>>>, <<12226,
    <<39770>>>>, <<12227, <<40165>>>>, <<12228, <<40565>>>>, <<12229,
    <<40575>>>>, <<12230, <<40613>>>>, <<12231, <<40635>>>>, <<12232,
    <<40643>>>>, <<12233, <<40653>>>>, <<12234, <<40657>>>>, <<12235,
    <<40697>>>>, <<12236, <<40701>>>>, <<12237, <<40718>>>>, <<12238,
    <<40723>>>>, <<12239, <<40736>>>>, <<12240, <<40763>>>>, <<12241,
    <<40778>>>>, <<12242, <<40786>>>>, <<12243, <<40845>>>>, <<12244,
    <<40860>>>>, <<12245, <<40864>>>>, <<12288, <<32>>>>, <<12342,
    <<12306>>>>, <<12344, <<21313>>>>, <<12345, <<21316>>>>, <<12346,
    <<21317>>>>, <<12364, <<12363,12441>>>>, <<12366, <<12365,12441>>>>,
    <<12368, <<12367,12441>>>>, <<12370, <<12369,12441>>>>, <<12372,
    <<12371,12441>>>>, <<12374, <<12373,12441>>>>, <<12376, <<12375,12441>>>>,
    <<12378, <<12377,12441>>>>, <<12380, <<12379,12441>>>>, <<12382,
    <<12381,12441>>>>, <<12384, <<12383,12441>>>>, <<12386, <<12385,12441>>>>,
    <<12389, <<12388,12441>>>>, <<12391, <<12390,12441>>>>, <<12393,
    <<12392,12441>>>>, <<12400, <<12399,12441>>>>, <<12401, <<12399,12442>>>>,
    <<12403, <<12402,12441>>>>, <<12404, <<12402,12442>>>>, <<12406,
    <<12405,12441>>>>, <<12407, <<12405,12442>>>>, <<12409, <<12408,12441>>>>,
    <<12410, <<12408,12442>>>>, <<12412, <<12411,12441>>>>, <<12413,
    <<12411,12442>>>>, <<12436, <<12358,12441>>>>, <<12443, <<32,12441>>>>,
    <<12444, <<32,12442>>>>, <<12446, <<12445,12441>>>>, <<12447,
    <<12424,12426>>>>, <<12460, <<12459,12441>>>>, <<12462, <<12461,12441>>>>,
    <<12464, <<12463,12441>>>>, <<12466, <<12465,12441>>>>, <<12468,
    <<12467,12441>>>>, <<12470, <<12469,12441>>>>, <<12472, <<12471,12441>>>>,
    <<12474, <<12473,12441>>>>, <<12476, <<12475,12441>>>>, <<12478,
    <<12477,12441>>>>, <<12480, <<12479,12441>>>>, <<12482, <<12481,12441>>>>,
    <<12485, <<12484,12441>>>>, <<12487, <<12486,12441>>>>, <<12489,
    <<12488,12441>>>>, <<12496, <<12495,12441>>>>, <<12497, <<12495,12442>>>>,
    <<12499, <<12498,12441>>>>, <<12500, <<12498,12442>>>>, <<12502,
    <<12501,12441>>>>, <<12503, <<12501,12442>>>>, <<12505, <<12504,12441>>>>,
    <<12506, <<12504,12442>>>>, <<12508, <<12507,12441>>>>, <<12509,
    <<12507,12442>>>>, <<12532, <<12454,12441>>>>, <<12535, <<12527,12441>>>>,
    <<12536, <<12528,12441>>>>, <<12537, <<12529,12441>>>>, <<12538,
    <<12530,12441>>>>, <<12542, <<12541,12441>>>>, <<12543, <<12467,12488>>>>,
    <<12593, <<4352>>>>, <<12594, <<4353>>>>, <<12595, <<4522>>>>, <<12596,
    <<4354>>>>, <<12597, <<4524>>>>, <<12598, <<4525>>>>, <<12599, <<4355>>>>,
    <<12600, <<4356>>>>, <<12601, <<4357>>>>, <<12602, <<4528>>>>, <<12603,
    <<4529>>>>, <<12604, <<4530>>>>, <<12605, <<4531>>>>, <<12606, <<4532>>>>,
    <<12607, <<4533>>>>, <<12608, <<4378>>>>, <<12609, <<4358>>>>, <<12610,
    <<4359>>>>, <<12611, <<4360>>>>, <<12612, <<4385>>>>, <<12613, <<4361>>>>,
    <<12614, <<4362>>>>, <<12615, <<4363>>>>, <<12616, <<4364>>>>, <<12617,
    <<4365>>>>, <<12618, <<4366>>>>, <<12619, <<4367>>>>, <<12620, <<4368>>>>,
    <<12621, <<4369>>>>, <<12622, <<4370>>>>, <<12623, <<4449>>>>, <<12624,
    <<4450>>>>, <<12625, <<4451>>>>, <<12626, <<4452>>>>, <<12627, <<4453>>>>,
    <<12628, <<4454>>>>, <<12629, <<4455>>>>, <<12630, <<4456>>>>, <<12631,
    <<4457>>>>, <<12632, <<4458>>>>, <<12633, <<4459>>>>, <<12634, <<4460>>>>,
    <<12635, <<4461>>>>, <<12636, <<4462>>>>, <<12637, <<4463>>>>, <<12638,
    <<4464>>>>, <<12639, <<4465>>>>, <<12640, <<4466>>>>, <<12641, <<4467>>>>,
    <<12642, <<4468>>>>, <<12643, <<4469>>>>, <<12644, <<4448>>>>, <<12645,
    <<4372>>>>, <<12646, <<4373>>>>, <<12647, <<4551>>>>, <<12648, <<4552>>>>,
    <<12649, <<4556>>>>, <<12650, <<4558>>>>, <<12651, <<4563>>>>, <<12652,
    <<4567>>>>, <<12653, <<4569>>>>, <<12654, <<4380>>>>, <<12655, <<4573>>>>,
    <<12656, <<4575>>>>, <<12657, <<4381>>>>, <<12658, <<4382>>>>, <<12659,
    <<4384>>>>, <<12660, <<4386>>>>, <<12661, <<4387>>>>, <<12662, <<4391>>>>,
    <<12663, <<4393>>>>, <<12664, <<4395>>>>, <<12665, <<4396>>>>, <<12666,
    <<4397>>>>, <<12667, <<4398>>>>, <<12668, <<4399>>>>, <<12669, <<4402>>>>,
    <<12670, <<4406>>>>, <<12671, <<4416>>>>, <<12672, <<4423>>>>, <<12673,
    <<4428>>>>, <<12674, <<4593>>>>, <<12675, <<4594>>>>, <<12676, <<4439>>>>,
    <<12677, <<4440>>>>, <<12678, <<4441>>>>, <<12679, <<4484>>>>, <<12680,
    <<4485>>>>, <<12681, <<4488>>>>, <<12682, <<4497>>>>, <<12683, <<4498>>>>,
    <<12684, <<4500>>>>, <<12685, <<4510>>>>, <<12686, <<4513>>>>, <<12690,
    <<19968>>>>, <<12691, <<20108>>>>, <<12692, <<19977>>>>, <<12693,
    <<22235>>>>, <<12694, <<19978>>>>, <<12695, <<20013>>>>, <<12696,
    <<19979>>>>, <<12697, <<30002>>>>, <<12698, <<20057>>>>, <<12699,
    <<19993>>>>, <<12700, <<19969>>>>, <<12701, <<22825>>>>, <<12702,
    <<22320>>>>, <<12703, <<20154>>>>, <<12800, <<40,4352,41>>>>, <<12801,
    <<40,4354,41>>>>, <<12802, <<40,4355,41>>>>, <<12803, <<40,4357,41>>>>,
    <<12804, <<40,4358,41>>>>, <<12805, <<40,4359,41>>>>, <<12806,
    <<40,4361,41>>>>, <<12807, <<40,4363,41>>>>, <<12808, <<40,4364,41>>>>,
    <<12809, <<40,4366,41>>>>, <<12810, <<40,4367,41>>>>, <<12811,
    <<40,4368,41>>>>, <<12812, <<40,4369,41>>>>, <<12813, <<40,4370,41>>>>,
    <<12814, <<40,4352,4449,41>>>>, <<12815, <<40,4354,4449,41>>>>, <<12816,
    <<40,4355,4449,41>>>>, <<12817, <<40,4357,4449,41>>>>, <<12818,
    <<40,4358,4449,41>>>>, <<12819, <<40,4359,4449,41>>>>, <<12820,
    <<40,4361,4449,41>>>>, <<12821, <<40,4363,4449,41>>>>, <<12822,
    <<40,4364,4449,41>>>>, <<12823, <<40,4366,4449,41>>>>, <<12824,
    <<40,4367,4449,41>>>>, <<12825, <<40,4368,4449,41>>>>, <<12826,
    <<40,4369,4449,41>>>>, <<12827, <<40,4370,4449,41>>>>, <<12828,
    <<40,4364,4462,41>>>>, <<12829, <<40,4363,4457,4364,4453,4523,41>>>>,
    <<12830, <<40,4363,4457,4370,4462,41>>>>, <<12832, <<40,19968,41>>>>,
    <<12833, <<40,20108,41>>>>, <<12834, <<40,19977,41>>>>, <<12835,
    <<40,22235,41>>>>, <<12836, <<40,20116,41>>>>, <<12837, <<40,20845,41>>>>,
    <<12838, <<40,19971,41>>>>, <<12839, <<40,20843,41>>>>, <<12840,
    <<40,20061,41>>>>, <<12841, <<40,21313,41>>>>, <<12842, <<40,26376,41>>>>,
    <<12843, <<40,28779,41>>>>, <<12844, <<40,27700,41>>>>, <<12845,
    <<40,26408,41>>>>, <<12846, <<40,37329,41>>>>, <<12847, <<40,22303,41>>>>,
    <<12848, <<40,26085,41>>>>, <<12849, <<40,26666,41>>>>, <<12850,
    <<40,26377,41>>>>, <<12851, <<40,31038,41>>>>, <<12852, <<40,21517,41>>>>,
    <<12853, <<40,29305,41>>>>, <<12854, <<40,36001,41>>>>, <<12855,
    <<40,31069,41>>>>, <<12856, <<40,21172,41>>>>, <<12857, <<40,20195,41>>>>,
    <<12858, <<40,21628,41>>>>, <<12859, <<40,23398,41>>>>, <<12860,
    <<40,30435,41>>>>, <<12861, <<40,20225,41>>>>, <<12862, <<40,36039,41>>>>,
    <<12863, <<40,21332,41>>>>, <<12864, <<40,31085,41>>>>, <<12865,
    <<40,20241,41>>>>, <<12866, <<40,33258,41>>>>, <<12867, <<40,33267,41>>>>,
    <<12868, <<21839>>>>, <<12869, <<24188>>>>, <<12870, <<25991>>>>, <<12871,
    <<31631>>>>, <<12880, <<80,84,69>>>>, <<12881, <<50,49>>>>, <<12882,
    <<50,50>>>>, <<12883, <<50,51>>>>, <<12884, <<50,52>>>>, <<12885,
    <<50,53>>>>, <<12886, <<50,54>>>>, <<12887, <<50,55>>>>, <<12888,
    <<50,56>>>>, <<12889, <<50,57>>>>, <<12890, <<51,48>>>>, <<12891,
    <<51,49>>>>, <<12892, <<51,50>>>>, <<12893, <<51,51>>>>, <<12894,
    <<51,52>>>>, <<12895, <<51,53>>>>, <<12896, <<4352>>>>, <<12897,
    <<4354>>>>, <<12898, <<4355>>>>, <<12899, <<4357>>>>, <<12900, <<4358>>>>,
    <<12901, <<4359>>>>, <<12902, <<4361>>>>, <<12903, <<4363>>>>, <<12904,
    <<4364>>>>, <<12905, <<4366>>>>, <<12906, <<4367>>>>, <<12907, <<4368>>>>,
    <<12908, <<4369>>>>, <<12909, <<4370>>>>, <<12910, <<4352,4449>>>>,
    <<12911, <<4354,4449>>>>, <<12912, <<4355,4449>>>>, <<12913,
    <<4357,4449>>>>, <<12914, <<4358,4449>>>>, <<12915, <<4359,4449>>>>,
    <<12916, <<4361,4449>>>>, <<12917, <<4363,4449>>>>, <<12918,
    <<4364,4449>>>>, <<12919, <<4366,4449>>>>, <<12920, <<4367,4449>>>>,
    <<12921, <<4368,4449>>>>, <<12922, <<4369,4449>>>>, <<12923,
    <<4370,4449>>>>, <<12924, <<4366,4449,4535,4352,4457>>>>, <<12925,
    <<4364,4462,4363,4468>>>>, <<12926, <<4363,4462>>>>, <<12928, <<19968>>>>,
    <<12929, <<20108>>>>, <<12930, <<19977>>>>, <<12931, <<22235>>>>, <<12932,
    <<20116>>>>, <<12933, <<20845>>>>, <<12934, <<19971>>>>, <<12935,
    <<20843>>>>, <<12936, <<20061>>>>, <<12937, <<21313>>>>, <<12938,
    <<26376>>>>, <<12939, <<28779>>>>, <<12940, <<27700>>>>, <<12941,
    <<26408>>>>, <<12942, <<37329>>>>, <<12943, <<22303>>>>, <<12944,
    <<26085>>>>, <<12945, <<26666>>>>, <<12946, <<26377>>>>, <<12947,
    <<31038>>>>, <<12948, <<21517>>>>, <<12949, <<29305>>>>, <<12950,
    <<36001>>>>, <<12951, <<31069>>>>, <<12952, <<21172>>>>, <<12953,
    <<31192>>>>, <<12954, <<30007>>>>, <<12955, <<22899>>>>, <<12956,
    <<36969>>>>, <<12957, <<20778>>>>, <<12958, <<21360>>>>, <<12959,
    <<27880>>>>, <<12960, <<38917>>>>, <<12961, <<20241>>>>, <<12962,
    <<20889>>>>, <<12963, <<27491>>>>, <<12964, <<19978>>>>, <<12965,
    <<20013>>>>, <<12966, <<19979>>>>, <<12967, <<24038>>>>, <<12968,
    <<21491>>>>, <<12969, <<21307>>>>, <<12970, <<23447>>>>, <<12971,
    <<23398>>>>, <<12972, <<30435>>>>, <<12973, <<20225>>>>, <<12974,
    <<36039>>>>, <<12975, <<21332>>>>, <<12976, <<22812>>>>, <<12977,
    <<51,54>>>>, <<12978, <<51,55>>>>, <<12979, <<51,56>>>>, <<12980,
    <<51,57>>>>, <<12981, <<52,48>>>>, <<12982, <<52,49>>>>, <<12983,
    <<52,50>>>>, <<12984, <<52,51>>>>, <<12985, <<52,52>>>>, <<12986,
    <<52,53>>>>, <<12987, <<52,54>>>>, <<12988, <<52,55>>>>, <<12989,
    <<52,56>>>>, <<12990, <<52,57>>>>, <<12991, <<53,48>>>>, <<12992,
    <<49,26376>>>>, <<12993, <<50,26376>>>>, <<12994, <<51,26376>>>>, <<12995,
    <<52,26376>>>>, <<12996, <<53,26376>>>>, <<12997, <<54,26376>>>>, <<12998,
    <<55,26376>>>>, <<12999, <<56,26376>>>>, <<13000, <<57,26376>>>>, <<13001,
    <<49,48,26376>>>>, <<13002, <<49,49,26376>>>>, <<13003, <<49,50,26376>>>>,
    <<13004, <<72,103>>>>, <<13005, <<101,114,103>>>>, <<13006, <<101,86>>>>,
    <<13007, <<76,84,68>>>>, <<13008, <<12450>>>>, <<13009, <<12452>>>>,
    <<13010, <<12454>>>>, <<13011, <<12456>>>>, <<13012, <<12458>>>>, <<13013,
    <<12459>>>>, <<13014, <<12461>>>>, <<13015, <<12463>>>>, <<13016,
    <<12465>>>>, <<13017, <<12467>>>>, <<13018, <<12469>>>>, <<13019,
    <<12471>>>>, <<13020, <<12473>>>>, <<13021, <<12475>>>>, <<13022,
    <<12477>>>>, <<13023, <<12479>>>>, <<13024, <<12481>>>>, <<13025,
    <<12484>>>>, <<13026, <<12486>>>>, <<13027, <<12488>>>>, <<13028,
    <<12490>>>>, <<13029, <<12491>>>>, <<13030, <<12492>>>>, <<13031,
    <<12493>>>>, <<13032, <<12494>>>>, <<13033, <<12495>>>>, <<13034,
    <<12498>>>>, <<13035, <<12501>>>>, <<13036, <<12504>>>>, <<13037,
    <<12507>>>>, <<13038, <<12510>>>>, <<13039, <<12511>>>>, <<13040,
    <<12512>>>>, <<13041, <<12513>>>>, <<13042, <<12514>>>>, <<13043,
    <<12516>>>>, <<13044, <<12518>>>>, <<13045, <<12520>>>>, <<13046,
    <<12521>>>>, <<13047, <<12522>>>>, <<13048, <<12523>>>>, <<13049,
    <<12524>>>>, <<13050, <<12525>>>>, <<13051, <<12527>>>>, <<13052,
    <<12528>>>>, <<13053, <<12529>>>>, <<13054, <<12530>>>>, <<13055,
    <<20196,21644>>>>, <<13056, <<12450,12495,12442,12540,12488>>>>, <<13057,
    <<12450,12523,12501,12449>>>>, <<13058,
    <<12450,12531,12504,12442,12450>>>>, <<13059, <<12450,12540,12523>>>>,
    <<13060, <<12452,12491,12531,12463,12441>>>>, <<13061,
    <<12452,12531,12481>>>>, <<13062, <<12454,12457,12531>>>>, <<13063,
    <<12456,12473,12463,12540,12488,12441>>>>, <<13064,
    <<12456,12540,12459,12540>>>>, <<13065, <<12458,12531,12473>>>>, <<13066,
    <<12458,12540,12512>>>>, <<13067, <<12459,12452,12522>>>>, <<13068,
    <<12459,12521,12483,12488>>>>, <<13069, <<12459,12525,12522,12540>>>>,
    <<13070, <<12459,12441,12525,12531>>>>, <<13071,
    <<12459,12441,12531,12510>>>>, <<13072, <<12461,12441,12459,12441>>>>,
    <<13073, <<12461,12441,12491,12540>>>>, <<13074,
    <<12461,12517,12522,12540>>>>, <<13075,
    <<12461,12441,12523,12479,12441,12540>>>>, <<13076, <<12461,12525>>>>,
    <<13077, <<12461,12525,12463,12441,12521,12512>>>>, <<13078,
    <<12461,12525,12513,12540,12488,12523>>>>, <<13079,
    <<12461,12525,12527,12483,12488>>>>, <<13080,
    <<12463,12441,12521,12512>>>>, <<13081,
    <<12463,12441,12521,12512,12488,12531>>>>, <<13082,
    <<12463,12523,12475,12441,12452,12525>>>>, <<13083,
    <<12463,12525,12540,12493>>>>, <<13084, <<12465,12540,12473>>>>, <<13085,
    <<12467,12523,12490>>>>, <<13086, <<12467,12540,12507,12442>>>>, <<13087,
    <<12469,12452,12463,12523>>>>, <<13088,
    <<12469,12531,12481,12540,12512>>>>, <<13089,
    <<12471,12522,12531,12463,12441>>>>, <<13090, <<12475,12531,12481>>>>,
    <<13091, <<12475,12531,12488>>>>, <<13092, <<12479,12441,12540,12473>>>>,
    <<13093, <<12486,12441,12471>>>>, <<13094, <<12488,12441,12523>>>>,
    <<13095, <<12488,12531>>>>, <<13096, <<12490,12494>>>>, <<13097,
    <<12494,12483,12488>>>>, <<13098, <<12495,12452,12484>>>>, <<13099,
    <<12495,12442,12540,12475,12531,12488>>>>, <<13100,
    <<12495,12442,12540,12484>>>>, <<13101,
    <<12495,12441,12540,12524,12523>>>>, <<13102,
    <<12498,12442,12450,12473,12488,12523>>>>, <<13103,
    <<12498,12442,12463,12523>>>>, <<13104, <<12498,12442,12467>>>>, <<13105,
    <<12498,12441,12523>>>>, <<13106,
    <<12501,12449,12521,12483,12488,12441>>>>, <<13107,
    <<12501,12451,12540,12488>>>>, <<13108,
    <<12501,12441,12483,12471,12455,12523>>>>, <<13109,
    <<12501,12521,12531>>>>, <<13110, <<12504,12463,12479,12540,12523>>>>,
    <<13111, <<12504,12442,12477>>>>, <<13112, <<12504,12442,12491,12498>>>>,
    <<13113, <<12504,12523,12484>>>>, <<13114, <<12504,12442,12531,12473>>>>,
    <<13115, <<12504,12442,12540,12471,12441>>>>, <<13116,
    <<12504,12441,12540,12479>>>>, <<13117,
    <<12507,12442,12452,12531,12488>>>>, <<13118,
    <<12507,12441,12523,12488>>>>, <<13119, <<12507,12531>>>>, <<13120,
    <<12507,12442,12531,12488,12441>>>>, <<13121, <<12507,12540,12523>>>>,
    <<13122, <<12507,12540,12531>>>>, <<13123, <<12510,12452,12463,12525>>>>,
    <<13124, <<12510,12452,12523>>>>, <<13125, <<12510,12483,12495>>>>,
    <<13126, <<12510,12523,12463>>>>, <<13127,
    <<12510,12531,12471,12519,12531>>>>, <<13128,
    <<12511,12463,12525,12531>>>>, <<13129, <<12511,12522>>>>, <<13130,
    <<12511,12522,12495,12441,12540,12523>>>>, <<13131,
    <<12513,12459,12441>>>>, <<13132, <<12513,12459,12441,12488,12531>>>>,
    <<13133, <<12513,12540,12488,12523>>>>, <<13134,
    <<12516,12540,12488,12441>>>>, <<13135, <<12516,12540,12523>>>>, <<13136,
    <<12518,12450,12531>>>>, <<13137, <<12522,12483,12488,12523>>>>, <<13138,
    <<12522,12521>>>>, <<13139, <<12523,12498,12442,12540>>>>, <<13140,
    <<12523,12540,12501,12441,12523>>>>, <<13141, <<12524,12512>>>>, <<13142,
    <<12524,12531,12488,12465,12441,12531>>>>, <<13143,
    <<12527,12483,12488>>>>, <<13144, <<48,28857>>>>, <<13145, <<49,28857>>>>,
    <<13146, <<50,28857>>>>, <<13147, <<51,28857>>>>, <<13148, <<52,28857>>>>,
    <<13149, <<53,28857>>>>, <<13150, <<54,28857>>>>, <<13151, <<55,28857>>>>,
    <<13152, <<56,28857>>>>, <<13153, <<57,28857>>>>, <<13154,
    <<49,48,28857>>>>, <<13155, <<49,49,28857>>>>, <<13156, <<49,50,28857>>>>,
    <<13157, <<49,51,28857>>>>, <<13158, <<49,52,28857>>>>, <<13159,
    <<49,53,28857>>>>, <<13160, <<49,54,28857>>>>, <<13161, <<49,55,28857>>>>,
    <<13162, <<49,56,28857>>>>, <<13163, <<49,57,28857>>>>, <<13164,
    <<50,48,28857>>>>, <<13165, <<50,49,28857>>>>, <<13166, <<50,50,28857>>>>,
    <<13167, <<50,51,28857>>>>, <<13168, <<50,52,28857>>>>, <<13169,
    <<104,80,97>>>>, <<13170, <<100,97>>>>, <<13171, <<65,85>>>>, <<13172,
    <<98,97,114>>>>, <<13173, <<111,86>>>>, <<13174, <<112,99>>>>, <<13175,
    <<100,109>>>>, <<13176, <<100,109,50>>>>, <<13177, <<100,109,51>>>>,
    <<13178, <<73,85>>>>, <<13179, <<24179,25104>>>>, <<13180,
    <<26157,21644>>>>, <<13181, <<22823,27491>>>>, <<13182, <<26126,27835>>>>,
    <<13183, <<26666,24335,20250,31038>>>>, <<13184, <<112,65>>>>, <<13185,
    <<110,65>>>>, <<13186, <<956,65>>>>, <<13187, <<109,65>>>>, <<13188,
    <<107,65>>>>, <<13189, <<75,66>>>>, <<13190, <<77,66>>>>, <<13191,
    <<71,66>>>>, <<13192, <<99,97,108>>>>, <<13193, <<107,99,97,108>>>>,
    <<13194, <<112,70>>>>, <<13195, <<110,70>>>>, <<13196, <<956,70>>>>,
    <<13197, <<956,103>>>>, <<13198, <<109,103>>>>, <<13199, <<107,103>>>>,
    <<13200, <<72,122>>>>, <<13201, <<107,72,122>>>>, <<13202,
    <<77,72,122>>>>, <<13203, <<71,72,122>>>>, <<13204, <<84,72,122>>>>,
    <<13205, <<956,108>>>>, <<13206, <<109,108>>>>, <<13207, <<100,108>>>>,
    <<13208, <<107,108>>>>, <<13209, <<102,109>>>>, <<13210, <<110,109>>>>,
    <<13211, <<956,109>>>>, <<13212, <<109,109>>>>, <<13213, <<99,109>>>>,
    <<13214, <<107,109>>>>, <<13215, <<109,109,50>>>>, <<13216,
    <<99,109,50>>>>, <<13217, <<109,50>>>>, <<13218, <<107,109,50>>>>,
    <<13219, <<109,109,51>>>>, <<13220, <<99,109,51>>>>, <<13221,
    <<109,51>>>>, <<13222, <<107,109,51>>>>, <<13223, <<109,8725,115>>>>,
    <<13224, <<109,8725,115,50>>>>, <<13225, <<80,97>>>>, <<13226,
    <<107,80,97>>>>, <<13227, <<77,80,97>>>>, <<13228, <<71,80,97>>>>,
    <<13229, <<114,97,100>>>>, <<13230, <<114,97,100,8725,115>>>>, <<13231,
    <<114,97,100,8725,115,50>>>>, <<13232, <<112,115>>>>, <<13233,
    <<110,115>>>>, <<13234, <<956,115>>>>, <<13235, <<109,115>>>>, <<13236,
    <<112,86>>>>, <<13237, <<110,86>>>>, <<13238, <<956,86>>>>, <<13239,
    <<109,86>>>>, <<13240, <<107,86>>>>, <<13241, <<77,86>>>>, <<13242,
    <<112,87>>>>, <<13243, <<110,87>>>>, <<13244, <<956,87>>>>, <<13245,
    <<109,87>>>>, <<13246, <<107,87>>>>, <<13247, <<77,87>>>>, <<13248,
    <<107,937>>>>, <<13249, <<77,937>>>>, <<13250, <<97,46,109,46>>>>,
    <<13251, <<66,113>>>>, <<13252, <<99,99>>>>, <<13253, <<99,100>>>>,
    <<13254, <<67,8725,107,103>>>>, <<13255, <<67,111,46>>>>, <<13256,
    <<100,66>>>>, <<13257, <<71,121>>>>, <<13258, <<104,97>>>>, <<13259,
    <<72,80>>>>, <<13260, <<105,110>>>>, <<13261, <<75,75>>>>, <<13262,
    <<75,77>>>>, <<13263, <<107,116>>>>, <<13264, <<108,109>>>>, <<13265,
    <<108,110>>>>, <<13266, <<108,111,103>>>>, <<13267, <<108,120>>>>,
    <<13268, <<109,98>>>>, <<13269, <<109,105,108>>>>, <<13270,
    <<109,111,108>>>>, <<13271, <<80,72>>>>, <<13272, <<112,46,109,46>>>>,
    <<13273, <<80,80,77>>>>, <<13274, <<80,82>>>>, <<13275, <<115,114>>>>,
    <<13276, <<83,118>>>>, <<13277, <<87,98>>>>, <<13278, <<86,8725,109>>>>,
    <<13279, <<65,8725,109>>>>, <<13280, <<49,26085>>>>, <<13281,
    <<50,26085>>>>, <<13282, <<51,26085>>>>, <<13283, <<52,26085>>>>, <<13284,
    <<53,26085>>>>, <<13285, <<54,26085>>>>, <<13286, <<55,26085>>>>, <<13287,
    <<56,26085>>>>, <<13288, <<57,26085>>>>, <<13289, <<49,48,26085>>>>,
    <<13290, <<49,49,26085>>>>, <<13291, <<49,50,26085>>>>, <<13292,
    <<49,51,26085>>>>, <<13293, <<49,52,26085>>>>, <<13294, <<49,53,26085>>>>,
    <<13295, <<49,54,26085>>>>, <<13296, <<49,55,26085>>>>, <<13297,
    <<49,56,26085>>>>, <<13298, <<49,57,26085>>>>, <<13299, <<50,48,26085>>>>,
    <<13300, <<50,49,26085>>>>, <<13301, <<50,50,26085>>>>, <<13302,
    <<50,51,26085>>>>, <<13303, <<50,52,26085>>>>, <<13304, <<50,53,26085>>>>,
    <<13305, <<50,54,26085>>>>, <<13306, <<50,55,26085>>>>, <<13307,
    <<50,56,26085>>>>, <<13308, <<50,57,26085>>>>, <<13309, <<51,48,26085>>>>,
    <<13310, <<51,49,26085>>>>, <<13311, <<103,97,108>>>>, <<42652,
    <<1098>>>>, <<42653, <<1100>>>>, <<42864, <<42863>>>>, <<42994, <<67>>>>,
    <<42995, <<70>>>>, <<42996, <<81>>>>, <<43000, <<294>>>>, <<43001,
    <<339>>>>, <<43868, <<42791>>>>, <<43869, <<43831>>>>, <<43870, <<619>>>>,
    <<43871, <<43858>>>>, <<43881, <<653>>>>, <<63744, <<35912>>>>, <<63745,
    <<26356>>>>, <<63746, <<36554>>>>, <<63747, <<36040>>>>, <<63748,
    <<28369>>>>, <<63749, <<20018>>>>, <<63750, <<21477>>>>, <<63751,
    <<40860>>>>, <<63752, <<40860>>>>, <<63753, <<22865>>>>, <<63754,
    <<37329>>>>, <<63755, <<21895>>>>, <<63756, <<22856>>>>, <<63757,
    <<25078>>>>, <<63758, <<30313>>>>, <<63759, <<32645>>>>, <<63760,
    <<34367>>>>, <<63761, <<34746>>>>, <<63762, <<35064>>>>, <<63763,
    <<37007>>>>, <<63764, <<27138>>>>, <<63765, <<27931>>>>, <<63766,
    <<28889>>>>, <<63767, <<29662>>>>, <<63768, <<33853>>>>, <<63769,
    <<37226>>>>, <<63770, <<39409>>>>, <<63771, <<20098>>>>, <<63772,
    <<21365>>>>, <<63773, <<27396>>>>, <<63774, <<29211>>>>, <<63775,
    <<34349>>>>, <<63776, <<40478>>>>, <<63777, <<23888>>>>, <<63778,
    <<28651>>>>, <<63779, <<34253>>>>, <<63780, <<35172>>>>, <<63781,
    <<25289>>>>, <<63782, <<33240>>>>, <<63783, <<34847>>>>, <<63784,
    <<24266>>>>, <<63785, <<26391>>>>, <<63786, <<28010>>>>, <<63787,
    <<29436>>>>, <<63788, <<37070>>>>, <<63789, <<20358>>>>, <<63790,
    <<20919>>>>, <<63791, <<21214>>>>, <<63792, <<25796>>>>, <<63793,
    <<27347>>>>, <<63794, <<29200>>>>, <<63795, <<30439>>>>, <<63796,
    <<32769>>>>, <<63797, <<34310>>>>, <<63798, <<34396>>>>, <<63799,
    <<36335>>>>, <<63800, <<38706>>>>, <<63801, <<39791>>>>, <<63802,
    <<40442>>>>, <<63803, <<30860>>>>, <<63804, <<31103>>>>, <<63805,
    <<32160>>>>, <<63806, <<33737>>>>, <<63807, <<37636>>>>, <<63808,
    <<40575>>>>, <<63809, <<35542>>>>, <<63810, <<22751>>>>, <<63811,
    <<24324>>>>, <<63812, <<31840>>>>, <<63813, <<32894>>>>, <<63814,
    <<29282>>>>, <<63815, <<30922>>>>, <<63816, <<36034>>>>, <<63817,
    <<38647>>>>, <<63818, <<22744>>>>, <<63819, <<23650>>>>, <<63820,
    <<27155>>>>, <<63821, <<28122>>>>, <<63822, <<28431>>>>, <<63823,
    <<32047>>>>, <<63824, <<32311>>>>, <<63825, <<38475>>>>, <<63826,
    <<21202>>>>, <<63827, <<32907>>>>, <<63828, <<20956>>>>, <<63829,
    <<20940>>>>, <<63830, <<31260>>>>, <<63831, <<32190>>>>, <<63832,
    <<33777>>>>, <<63833, <<38517>>>>, <<63834, <<35712>>>>, <<63835,
    <<25295>>>>, <<63836, <<27138>>>>, <<63837, <<35582>>>>, <<63838,
    <<20025>>>>, <<63839, <<23527>>>>, <<63840, <<24594>>>>, <<63841,
    <<29575>>>>, <<63842, <<30064>>>>, <<63843, <<21271>>>>, <<63844,
    <<30971>>>>, <<63845, <<20415>>>>, <<63846, <<24489>>>>, <<63847,
    <<19981>>>>, <<63848, <<27852>>>>, <<63849, <<25976>>>>, <<63850,
    <<32034>>>>, <<63851, <<21443>>>>, <<63852, <<22622>>>>, <<63853,
    <<30465>>>>, <<63854, <<33865>>>>, <<63855, <<35498>>>>, <<63856,
    <<27578>>>>, <<63857, <<36784>>>>, <<63858, <<27784>>>>, <<63859,
    <<25342>>>>, <<63860, <<33509>>>>, <<63861, <<25504>>>>, <<63862,
    <<30053>>>>, <<63863, <<20142>>>>, <<63864, <<20841>>>>, <<63865,
    <<20937>>>>, <<63866, <<26753>>>>, <<63867, <<31975>>>>, <<63868,
    <<33391>>>>, <<63869, <<35538>>>>, <<63870, <<37327>>>>, <<63871,
    <<21237>>>>, <<63872, <<21570>>>>, <<63873, <<22899>>>>, <<63874,
    <<24300>>>>, <<63875, <<26053>>>>, <<63876, <<28670>>>>, <<63877,
    <<31018>>>>, <<63878, <<38317>>>>, <<63879, <<39530>>>>, <<63880,
    <<40599>>>>, <<63881, <<40654>>>>, <<63882, <<21147>>>>, <<63883,
    <<26310>>>>, <<63884, <<27511>>>>, <<63885, <<36706>>>>, <<63886,
    <<24180>>>>, <<63887, <<24976>>>>, <<63888, <<25088>>>>, <<63889,
    <<25754>>>>, <<63890, <<28451>>>>, <<63891, <<29001>>>>, <<63892,
    <<29833>>>>, <<63893, <<31178>>>>, <<63894, <<32244>>>>, <<63895,
    <<32879>>>>, <<63896, <<36646>>>>, <<63897, <<34030>>>>, <<63898,
    <<36899>>>>, <<63899, <<37706>>>>, <<63900, <<21015>>>>, <<63901,
    <<21155>>>>, <<63902, <<21693>>>>, <<63903, <<28872>>>>, <<63904,
    <<35010>>>>, <<63905, <<35498>>>>, <<63906, <<24265>>>>, <<63907,
    <<24565>>>>, <<63908, <<25467>>>>, <<63909, <<27566>>>>, <<63910,
    <<31806>>>>, <<63911, <<29557>>>>, <<63912, <<20196>>>>, <<63913,
    <<22265>>>>, <<63914, <<23527>>>>, <<63915, <<23994>>>>, <<63916,
    <<24604>>>>, <<63917, <<29618>>>>, <<63918, <<29801>>>>, <<63919,
    <<32666>>>>, <<63920, <<32838>>>>, <<63921, <<37428>>>>, <<63922,
    <<38646>>>>, <<63923, <<38728>>>>, <<63924, <<38936>>>>, <<63925,
    <<20363>>>>, <<63926, <<31150>>>>, <<63927, <<37300>>>>, <<63928,
    <<38584>>>>, <<63929, <<24801>>>>, <<63930, <<20102>>>>, <<63931,
    <<20698>>>>, <<63932, <<23534>>>>, <<63933, <<23615>>>>, <<63934,
    <<26009>>>>, <<63935, <<27138>>>>, <<63936, <<29134>>>>, <<63937,
    <<30274>>>>, <<63938, <<34044>>>>, <<63939, <<36988>>>>, <<63940,
    <<40845>>>>, <<63941, <<26248>>>>, <<63942, <<38446>>>>, <<63943,
    <<21129>>>>, <<63944, <<26491>>>>, <<63945, <<26611>>>>, <<63946,
    <<27969>>>>, <<63947, <<28316>>>>, <<63948, <<29705>>>>, <<63949,
    <<30041>>>>, <<63950, <<30827>>>>, <<63951, <<32016>>>>, <<63952,
    <<39006>>>>, <<63953, <<20845>>>>, <<63954, <<25134>>>>, <<63955,
    <<38520>>>>, <<63956, <<20523>>>>, <<63957, <<23833>>>>, <<63958,
    <<28138>>>>, <<63959, <<36650>>>>, <<63960, <<24459>>>>, <<63961,
    <<24900>>>>, <<63962, <<26647>>>>, <<63963, <<29575>>>>, <<63964,
    <<38534>>>>, <<63965, <<21033>>>>, <<63966, <<21519>>>>, <<63967,
    <<23653>>>>, <<63968, <<26131>>>>, <<63969, <<26446>>>>, <<63970,
    <<26792>>>>, <<63971, <<27877>>>>, <<63972, <<29702>>>>, <<63973,
    <<30178>>>>, <<63974, <<32633>>>>, <<63975, <<35023>>>>, <<63976,
    <<35041>>>>, <<63977, <<37324>>>>, <<63978, <<38626>>>>, <<63979,
    <<21311>>>>, <<63980, <<28346>>>>, <<63981, <<21533>>>>, <<63982,
    <<29136>>>>, <<63983, <<29848>>>>, <<63984, <<34298>>>>, <<63985,
    <<38563>>>>, <<63986, <<40023>>>>, <<63987, <<40607>>>>, <<63988,
    <<26519>>>>, <<63989, <<28107>>>>, <<63990, <<33256>>>>, <<63991,
    <<31435>>>>, <<63992, <<31520>>>>, <<63993, <<31890>>>>, <<63994,
    <<29376>>>>, <<63995, <<28825>>>>, <<63996, <<35672>>>>, <<63997,
    <<20160>>>>, <<63998, <<33590>>>>, <<63999, <<21050>>>>, <<64000,
    <<20999>>>>, <<64001, <<24230>>>>, <<64002, <<25299>>>>, <<64003,
    <<31958>>>>, <<64004, <<23429>>>>, <<64005, <<27934>>>>, <<64006,
    <<26292>>>>, <<64007, <<36667>>>>, <<64008, <<34892>>>>, <<64009,
    <<38477>>>>, <<64010, <<35211>>>>, <<64011, <<24275>>>>, <<64012,
    <<20800>>>>, <<64013, <<21952>>>>, <<64016, <<22618>>>>, <<64018,
    <<26228>>>>, <<64021, <<20958>>>>, <<64022, <<29482>>>>, <<64023,
    <<30410>>>>, <<64024, <<31036>>>>, <<64025, <<31070>>>>, <<64026,
    <<31077>>>>, <<64027, <<31119>>>>, <<64028, <<38742>>>>, <<64029,
    <<31934>>>>, <<64030, <<32701>>>>, <<64032, <<34322>>>>, <<64034,
    <<35576>>>>, <<64037, <<36920>>>>, <<64038, <<37117>>>>, <<64042,
    <<39151>>>>, <<64043, <<39164>>>>, <<64044, <<39208>>>>, <<64045,
    <<40372>>>>, <<64046, <<37086>>>>, <<64047, <<38583>>>>, <<64048,
    <<20398>>>>, <<64049, <<20711>>>>, <<64050, <<20813>>>>, <<64051,
    <<21193>>>>, <<64052, <<21220>>>>, <<64053, <<21329>>>>, <<64054,
    <<21917>>>>, <<64055, <<22022>>>>, <<64056, <<22120>>>>, <<64057,
    <<22592>>>>, <<64058, <<22696>>>>, <<64059, <<23652>>>>, <<64060,
    <<23662>>>>, <<64061, <<24724>>>>, <<64062, <<24936>>>>, <<64063,
    <<24974>>>>, <<64064, <<25074>>>>, <<64065, <<25935>>>>, <<64066,
    <<26082>>>>, <<64067, <<26257>>>>, <<64068, <<26757>>>>, <<64069,
    <<28023>>>>, <<64070, <<28186>>>>, <<64071, <<28450>>>>, <<64072,
    <<29038>>>>, <<64073, <<29227>>>>, <<64074, <<29730>>>>, <<64075,
    <<30865>>>>, <<64076, <<31038>>>>, <<64077, <<31049>>>>, <<64078,
    <<31048>>>>, <<64079, <<31056>>>>, <<64080, <<31062>>>>, <<64081,
    <<31069>>>>, <<64082, <<31117>>>>, <<64083, <<31118>>>>, <<64084,
    <<31296>>>>, <<64085, <<31361>>>>, <<64086, <<31680>>>>, <<64087,
    <<32244>>>>, <<64088, <<32265>>>>, <<64089, <<32321>>>>, <<64090,
    <<32626>>>>, <<64091, <<32773>>>>, <<64092, <<33261>>>>, <<64093,
    <<33401>>>>, <<64094, <<33401>>>>, <<64095, <<33879>>>>, <<64096,
    <<35088>>>>, <<64097, <<35222>>>>, <<64098, <<35585>>>>, <<64099,
    <<35641>>>>, <<64100, <<36051>>>>, <<64101, <<36104>>>>, <<64102,
    <<36790>>>>, <<64103, <<36920>>>>, <<64104, <<38627>>>>, <<64105,
    <<38911>>>>, <<64106, <<38971>>>>, <<64107, <<24693>>>>, <<64108,
    <<148206>>>>, <<64109, <<33304>>>>, <<64112, <<20006>>>>, <<64113,
    <<20917>>>>, <<64114, <<20840>>>>, <<64115, <<20352>>>>, <<64116,
    <<20805>>>>, <<64117, <<20864>>>>, <<64118, <<21191>>>>, <<64119,
    <<21242>>>>, <<64120, <<21917>>>>, <<64121, <<21845>>>>, <<64122,
    <<21913>>>>, <<64123, <<21986>>>>, <<64124, <<22618>>>>, <<64125,
    <<22707>>>>, <<64126, <<22852>>>>, <<64127, <<22868>>>>, <<64128,
    <<23138>>>>, <<64129, <<23336>>>>, <<64130, <<24274>>>>, <<64131,
    <<24281>>>>, <<64132, <<24425>>>>, <<64133, <<24493>>>>, <<64134,
    <<24792>>>>, <<64135, <<24910>>>>, <<64136, <<24840>>>>, <<64137,
    <<24974>>>>, <<64138, <<24928>>>>, <<64139, <<25074>>>>, <<64140,
    <<25140>>>>, <<64141, <<25540>>>>, <<64142, <<25628>>>>, <<64143,
    <<25682>>>>, <<64144, <<25942>>>>, <<64145, <<26228>>>>, <<64146,
    <<26391>>>>, <<64147, <<26395>>>>, <<64148, <<26454>>>>, <<64149,
    <<27513>>>>, <<64150, <<27578>>>>, <<64151, <<27969>>>>, <<64152,
    <<28379>>>>, <<64153, <<28363>>>>, <<64154, <<28450>>>>, <<64155,
    <<28702>>>>, <<64156, <<29038>>>>, <<64157, <<30631>>>>, <<64158,
    <<29237>>>>, <<64159, <<29359>>>>, <<64160, <<29482>>>>, <<64161,
    <<29809>>>>, <<64162, <<29958>>>>, <<64163, <<30011>>>>, <<64164,
    <<30237>>>>, <<64165, <<30239>>>>, <<64166, <<30410>>>>, <<64167,
    <<30427>>>>, <<64168, <<30452>>>>, <<64169, <<30538>>>>, <<64170,
    <<30528>>>>, <<64171, <<30924>>>>, <<64172, <<31409>>>>, <<64173,
    <<31680>>>>, <<64174, <<31867>>>>, <<64175, <<32091>>>>, <<64176,
    <<32244>>>>, <<64177, <<32574>>>>, <<64178, <<32773>>>>, <<64179,
    <<33618>>>>, <<64180, <<33775>>>>, <<64181, <<34681>>>>, <<64182,
    <<35137>>>>, <<64183, <<35206>>>>, <<64184, <<35222>>>>, <<64185,
    <<35519>>>>, <<64186, <<35576>>>>, <<64187, <<35531>>>>, <<64188,
    <<35585>>>>, <<64189, <<35582>>>>, <<64190, <<35565>>>>, <<64191,
    <<35641>>>>, <<64192, <<35722>>>>, <<64193, <<36104>>>>, <<64194,
    <<36664>>>>, <<64195, <<36978>>>>, <<64196, <<37273>>>>, <<64197,
    <<37494>>>>, <<64198, <<38524>>>>, <<64199, <<38627>>>>, <<64200,
    <<38742>>>>, <<64201, <<38875>>>>, <<64202, <<38911>>>>, <<64203,
    <<38923>>>>, <<64204, <<38971>>>>, <<64205, <<39698>>>>, <<64206,
    <<40860>>>>, <<64207, <<141386>>>>, <<64208, <<141380>>>>, <<64209,
    <<144341>>>>, <<64210, <<15261>>>>, <<64211, <<16408>>>>, <<64212,
    <<16441>>>>, <<64213, <<152137>>>>, <<64214, <<154832>>>>, <<64215,
    <<163539>>>>, <<64216, <<40771>>>>, <<64217, <<40846>>>>, <<64256,
    <<102,102>>>>, <<64257, <<102,105>>>>, <<64258, <<102,108>>>>, <<64259,
    <<102,102,105>>>>, <<64260, <<102,102,108>>>>, <<64261, <<115,116>>>>,
    <<64262, <<115,116>>>>, <<64275, <<1396,1398>>>>, <<64276,
    <<1396,1381>>>>, <<64277, <<1396,1387>>>>, <<64278, <<1406,1398>>>>,
    <<64279, <<1396,1389>>>>, <<64285, <<1497,1460>>>>, <<64287,
    <<1522,1463>>>>, <<64288, <<1506>>>>, <<64289, <<1488>>>>, <<64290,
    <<1491>>>>, <<64291, <<1492>>>>, <<64292, <<1499>>>>, <<64293, <<1500>>>>,
    <<64294, <<1501>>>>, <<64295, <<1512>>>>, <<64296, <<1514>>>>, <<64297,
    <<43>>>>, <<64298, <<1513,1473>>>>, <<64299, <<1513,1474>>>>, <<64300,
    <<1513,1468,1473>>>>, <<64301, <<1513,1468,1474>>>>, <<64302,
    <<1488,1463>>>>, <<64303, <<1488,1464>>>>, <<64304, <<1488,1468>>>>,
    <<64305, <<1489,1468>>>>, <<64306, <<1490,1468>>>>, <<64307,
    <<1491,1468>>>>, <<64308, <<1492,1468>>>>, <<64309, <<1493,1468>>>>,
    <<64310, <<1494,1468>>>>, <<64312, <<1496,1468>>>>, <<64313,
    <<1497,1468>>>>, <<64314, <<1498,1468>>>>, <<64315, <<1499,1468>>>>,
    <<64316, <<1500,1468>>>>, <<64318, <<1502,1468>>>>, <<64320,
    <<1504,1468>>>>, <<64321, <<1505,1468>>>>, <<64323, <<1507,1468>>>>,
    <<64324, <<1508,1468>>>>, <<64326, <<1510,1468>>>>, <<64327,
    <<1511,1468>>>>, <<64328, <<1512,1468>>>>, <<64329, <<1513,1468>>>>,
    <<64330, <<1514,1468>>>>, <<64331, <<1493,1465>>>>, <<64332,
    <<1489,1471>>>>, <<64333, <<1499,1471>>>>, <<64334, <<1508,1471>>>>,
    <<64335, <<1488,1500>>>>, <<64336, <<1649>>>>, <<64337, <<1649>>>>,
    <<64338, <<1659>>>>, <<64339, <<1659>>>>, <<64340, <<1659>>>>, <<64341,
    <<1659>>>>, <<64342, <<1662>>>>, <<64343, <<1662>>>>, <<64344, <<1662>>>>,
    <<64345, <<1662>>>>, <<64346, <<1664>>>>, <<64347, <<1664>>>>, <<64348,
    <<1664>>>>, <<64349, <<1664>>>>, <<64350, <<1658>>>>, <<64351, <<1658>>>>,
    <<64352, <<1658>>>>, <<64353, <<1658>>>>, <<64354, <<1663>>>>, <<64355,
    <<1663>>>>, <<64356, <<1663>>>>, <<64357, <<1663>>>>, <<64358, <<1657>>>>,
    <<64359, <<1657>>>>, <<64360, <<1657>>>>, <<64361, <<1657>>>>, <<64362,
    <<1700>>>>, <<64363, <<1700>>>>, <<64364, <<1700>>>>, <<64365, <<1700>>>>,
    <<64366, <<1702>>>>, <<64367, <<1702>>>>, <<64368, <<1702>>>>, <<64369,
    <<1702>>>>, <<64370, <<1668>>>>, <<64371, <<1668>>>>, <<64372, <<1668>>>>,
    <<64373, <<1668>>>>, <<64374, <<1667>>>>, <<64375, <<1667>>>>, <<64376,
    <<1667>>>>, <<64377, <<1667>>>>, <<64378, <<1670>>>>, <<64379, <<1670>>>>,
    <<64380, <<1670>>>>, <<64381, <<1670>>>>, <<64382, <<1671>>>>, <<64383,
    <<1671>>>>, <<64384, <<1671>>>>, <<64385, <<1671>>>>, <<64386, <<1677>>>>,
    <<64387, <<1677>>>>, <<64388, <<1676>>>>, <<64389, <<1676>>>>, <<64390,
    <<1678>>>>, <<64391, <<1678>>>>, <<64392, <<1672>>>>, <<64393, <<1672>>>>,
    <<64394, <<1688>>>>, <<64395, <<1688>>>>, <<64396, <<1681>>>>, <<64397,
    <<1681>>>>, <<64398, <<1705>>>>, <<64399, <<1705>>>>, <<64400, <<1705>>>>,
    <<64401, <<1705>>>>, <<64402, <<1711>>>>, <<64403, <<1711>>>>, <<64404,
    <<1711>>>>, <<64405, <<1711>>>>, <<64406, <<1715>>>>, <<64407, <<1715>>>>,
    <<64408, <<1715>>>>, <<64409, <<1715>>>>, <<64410, <<1713>>>>, <<64411,
    <<1713>>>>, <<64412, <<1713>>>>, <<64413, <<1713>>>>, <<64414, <<1722>>>>,
    <<64415, <<1722>>>>, <<64416, <<1723>>>>, <<64417, <<1723>>>>, <<64418,
    <<1723>>>>, <<64419, <<1723>>>>, <<64420, <<1749,1620>>>>, <<64421,
    <<1749,1620>>>>, <<64422, <<1729>>>>, <<64423, <<1729>>>>, <<64424,
    <<1729>>>>, <<64425, <<1729>>>>, <<64426, <<1726>>>>, <<64427, <<1726>>>>,
    <<64428, <<1726>>>>, <<64429, <<1726>>>>, <<64430, <<1746>>>>, <<64431,
    <<1746>>>>, <<64432, <<1746,1620>>>>, <<64433, <<1746,1620>>>>, <<64467,
    <<1709>>>>, <<64468, <<1709>>>>, <<64469, <<1709>>>>, <<64470, <<1709>>>>,
    <<64471, <<1735>>>>, <<64472, <<1735>>>>, <<64473, <<1734>>>>, <<64474,
    <<1734>>>>, <<64475, <<1736>>>>, <<64476, <<1736>>>>, <<64477,
    <<1735,1652>>>>, <<64478, <<1739>>>>, <<64479, <<1739>>>>, <<64480,
    <<1733>>>>, <<64481, <<1733>>>>, <<64482, <<1737>>>>, <<64483, <<1737>>>>,
    <<64484, <<1744>>>>, <<64485, <<1744>>>>, <<64486, <<1744>>>>, <<64487,
    <<1744>>>>, <<64488, <<1609>>>>, <<64489, <<1609>>>>, <<64490,
    <<1610,1620,1575>>>>, <<64491, <<1610,1620,1575>>>>, <<64492,
    <<1610,1620,1749>>>>, <<64493, <<1610,1620,1749>>>>, <<64494,
    <<1610,1620,1608>>>>, <<64495, <<1610,1620,1608>>>>, <<64496,
    <<1610,1620,1735>>>>, <<64497, <<1610,1620,1735>>>>, <<64498,
    <<1610,1620,1734>>>>, <<64499, <<1610,1620,1734>>>>, <<64500,
    <<1610,1620,1736>>>>, <<64501, <<1610,1620,1736>>>>, <<64502,
    <<1610,1620,1744>>>>, <<64503, <<1610,1620,1744>>>>, <<64504,
    <<1610,1620,1744>>>>, <<64505, <<1610,1620,1609>>>>, <<64506,
    <<1610,1620,1609>>>>, <<64507, <<1610,1620,1609>>>>, <<64508, <<1740>>>>,
    <<64509, <<1740>>>>, <<64510, <<1740>>>>, <<64511, <<1740>>>>, <<64512,
    <<1610,1620,1580>>>>, <<64513, <<1610,1620,1581>>>>, <<64514,
    <<1610,1620,1605>>>>, <<64515, <<1610,1620,1609>>>>, <<64516,
    <<1610,1620,1610>>>>, <<64517, <<1576,1580>>>>, <<64518, <<1576,1581>>>>,
    <<64519, <<1576,1582>>>>, <<64520, <<1576,1605>>>>, <<64521,
    <<1576,1609>>>>, <<64522, <<1576,1610>>>>, <<64523, <<1578,1580>>>>,
    <<64524, <<1578,1581>>>>, <<64525, <<1578,1582>>>>, <<64526,
    <<1578,1605>>>>, <<64527, <<1578,1609>>>>, <<64528, <<1578,1610>>>>,
    <<64529, <<1579,1580>>>>, <<64530, <<1579,1605>>>>, <<64531,
    <<1579,1609>>>>, <<64532, <<1579,1610>>>>, <<64533, <<1580,1581>>>>,
    <<64534, <<1580,1605>>>>, <<64535, <<1581,1580>>>>, <<64536,
    <<1581,1605>>>>, <<64537, <<1582,1580>>>>, <<64538, <<1582,1581>>>>,
    <<64539, <<1582,1605>>>>, <<64540, <<1587,1580>>>>, <<64541,
    <<1587,1581>>>>, <<64542, <<1587,1582>>>>, <<64543, <<1587,1605>>>>,
    <<64544, <<1589,1581>>>>, <<64545, <<1589,1605>>>>, <<64546,
    <<1590,1580>>>>, <<64547, <<1590,1581>>>>, <<64548, <<1590,1582>>>>,
    <<64549, <<1590,1605>>>>, <<64550, <<1591,1581>>>>, <<64551,
    <<1591,1605>>>>, <<64552, <<1592,1605>>>>, <<64553, <<1593,1580>>>>,
    <<64554, <<1593,1605>>>>, <<64555, <<1594,1580>>>>, <<64556,
    <<1594,1605>>>>, <<64557, <<1601,1580>>>>, <<64558, <<1601,1581>>>>,
    <<64559, <<1601,1582>>>>, <<64560, <<1601,1605>>>>, <<64561,
    <<1601,1609>>>>, <<64562, <<1601,1610>>>>, <<64563, <<1602,1581>>>>,
    <<64564, <<1602,1605>>>>, <<64565, <<1602,1609>>>>, <<64566,
    <<1602,1610>>>>, <<64567, <<1603,1575>>>>, <<64568, <<1603,1580>>>>,
    <<64569, <<1603,1581>>>>, <<64570, <<1603,1582>>>>, <<64571,
    <<1603,1604>>>>, <<64572, <<1603,1605>>>>, <<64573, <<1603,1609>>>>,
    <<64574, <<1603,1610>>>>, <<64575, <<1604,1580>>>>, <<64576,
    <<1604,1581>>>>, <<64577, <<1604,1582>>>>, <<64578, <<1604,1605>>>>,
    <<64579, <<1604,1609>>>>, <<64580, <<1604,1610>>>>, <<64581,
    <<1605,1580>>>>, <<64582, <<1605,1581>>>>, <<64583, <<1605,1582>>>>,
    <<64584, <<1605,1605>>>>, <<64585, <<1605,1609>>>>, <<64586,
    <<1605,1610>>>>, <<64587, <<1606,1580>>>>, <<64588, <<1606,1581>>>>,
    <<64589, <<1606,1582>>>>, <<64590, <<1606,1605>>>>, <<64591,
    <<1606,1609>>>>, <<64592, <<1606,1610>>>>, <<64593, <<1607,1580>>>>,
    <<64594, <<1607,1605>>>>, <<64595, <<1607,1609>>>>, <<64596,
    <<1607,1610>>>>, <<64597, <<1610,1580>>>>, <<64598, <<1610,1581>>>>,
    <<64599, <<1610,1582>>>>, <<64600, <<1610,1605>>>>, <<64601,
    <<1610,1609>>>>, <<64602, <<1610,1610>>>>, <<64603, <<1584,1648>>>>,
    <<64604, <<1585,1648>>>>, <<64605, <<1609,1648>>>>, <<64606,
    <<32,1612,1617>>>>, <<64607, <<32,1613,1617>>>>, <<64608,
    <<32,1614,1617>>>>, <<64609, <<32,1615,1617>>>>, <<64610,
    <<32,1616,1617>>>>, <<64611, <<32,1617,1648>>>>, <<64612,
    <<1610,1620,1585>>>>, <<64613, <<1610,1620,1586>>>>, <<64614,
    <<1610,1620,1605>>>>, <<64615, <<1610,1620,1606>>>>, <<64616,
    <<1610,1620,1609>>>>, <<64617, <<1610,1620,1610>>>>, <<64618,
    <<1576,1585>>>>, <<64619, <<1576,1586>>>>, <<64620, <<1576,1605>>>>,
    <<64621, <<1576,1606>>>>, <<64622, <<1576,1609>>>>, <<64623,
    <<1576,1610>>>>, <<64624, <<1578,1585>>>>, <<64625, <<1578,1586>>>>,
    <<64626, <<1578,1605>>>>, <<64627, <<1578,1606>>>>, <<64628,
    <<1578,1609>>>>, <<64629, <<1578,1610>>>>, <<64630, <<1579,1585>>>>,
    <<64631, <<1579,1586>>>>, <<64632, <<1579,1605>>>>, <<64633,
    <<1579,1606>>>>, <<64634, <<1579,1609>>>>, <<64635, <<1579,1610>>>>,
    <<64636, <<1601,1609>>>>, <<64637, <<1601,1610>>>>, <<64638,
    <<1602,1609>>>>, <<64639, <<1602,1610>>>>, <<64640, <<1603,1575>>>>,
    <<64641, <<1603,1604>>>>, <<64642, <<1603,1605>>>>, <<64643,
    <<1603,1609>>>>, <<64644, <<1603,1610>>>>, <<64645, <<1604,1605>>>>,
    <<64646, <<1604,1609>>>>, <<64647, <<1604,1610>>>>, <<64648,
    <<1605,1575>>>>, <<64649, <<1605,1605>>>>, <<64650, <<1606,1585>>>>,
    <<64651, <<1606,1586>>>>, <<64652, <<1606,1605>>>>, <<64653,
    <<1606,1606>>>>, <<64654, <<1606,1609>>>>, <<64655, <<1606,1610>>>>,
    <<64656, <<1609,1648>>>>, <<64657, <<1610,1585>>>>, <<64658,
    <<1610,1586>>>>, <<64659, <<1610,1605>>>>, <<64660, <<1610,1606>>>>,
    <<64661, <<1610,1609>>>>, <<64662, <<1610,1610>>>>, <<64663,
    <<1610,1620,1580>>>>, <<64664, <<1610,1620,1581>>>>, <<64665,
    <<1610,1620,1582>>>>, <<64666, <<1610,1620,1605>>>>, <<64667,
    <<1610,1620,1607>>>>, <<64668, <<1576,1580>>>>, <<64669, <<1576,1581>>>>,
    <<64670, <<1576,1582>>>>, <<64671, <<1576,1605>>>>, <<64672,
    <<1576,1607>>>>, <<64673, <<1578,1580>>>>, <<64674, <<1578,1581>>>>,
    <<64675, <<1578,1582>>>>, <<64676, <<1578,1605>>>>, <<64677,
    <<1578,1607>>>>, <<64678, <<1579,1605>>>>, <<64679, <<1580,1581>>>>,
    <<64680, <<1580,1605>>>>, <<64681, <<1581,1580>>>>, <<64682,
    <<1581,1605>>>>, <<64683, <<1582,1580>>>>, <<64684, <<1582,1605>>>>,
    <<64685, <<1587,1580>>>>, <<64686, <<1587,1581>>>>, <<64687,
    <<1587,1582>>>>, <<64688, <<1587,1605>>>>, <<64689, <<1589,1581>>>>,
    <<64690, <<1589,1582>>>>, <<64691, <<1589,1605>>>>, <<64692,
    <<1590,1580>>>>, <<64693, <<1590,1581>>>>, <<64694, <<1590,1582>>>>,
    <<64695, <<1590,1605>>>>, <<64696, <<1591,1581>>>>, <<64697,
    <<1592,1605>>>>, <<64698, <<1593,1580>>>>, <<64699, <<1593,1605>>>>,
    <<64700, <<1594,1580>>>>, <<64701, <<1594,1605>>>>, <<64702,
    <<1601,1580>>>>, <<64703, <<1601,1581>>>>, <<64704, <<1601,1582>>>>,
    <<64705, <<1601,1605>>>>, <<64706, <<1602,1581>>>>, <<64707,
    <<1602,1605>>>>, <<64708, <<1603,1580>>>>, <<64709, <<1603,1581>>>>,
    <<64710, <<1603,1582>>>>, <<64711, <<1603,1604>>>>, <<64712,
    <<1603,1605>>>>, <<64713, <<1604,1580>>>>, <<64714, <<1604,1581>>>>,
    <<64715, <<1604,1582>>>>, <<64716, <<1604,1605>>>>, <<64717,
    <<1604,1607>>>>, <<64718, <<1605,1580>>>>, <<64719, <<1605,1581>>>>,
    <<64720, <<1605,1582>>>>, <<64721, <<1605,1605>>>>, <<64722,
    <<1606,1580>>>>, <<64723, <<1606,1581>>>>, <<64724, <<1606,1582>>>>,
    <<64725, <<1606,1605>>>>, <<64726, <<1606,1607>>>>, <<64727,
    <<1607,1580>>>>, <<64728, <<1607,1605>>>>, <<64729, <<1607,1648>>>>,
    <<64730, <<1610,1580>>>>, <<64731, <<1610,1581>>>>, <<64732,
    <<1610,1582>>>>, <<64733, <<1610,1605>>>>, <<64734, <<1610,1607>>>>,
    <<64735, <<1610,1620,1605>>>>, <<64736, <<1610,1620,1607>>>>, <<64737,
    <<1576,1605>>>>, <<64738, <<1576,1607>>>>, <<64739, <<1578,1605>>>>,
    <<64740, <<1578,1607>>>>, <<64741, <<1579,1605>>>>, <<64742,
    <<1579,1607>>>>, <<64743, <<1587,1605>>>>, <<64744, <<1587,1607>>>>,
    <<64745, <<1588,1605>>>>, <<64746, <<1588,1607>>>>, <<64747,
    <<1603,1604>>>>, <<64748, <<1603,1605>>>>, <<64749, <<1604,1605>>>>,
    <<64750, <<1606,1605>>>>, <<64751, <<1606,1607>>>>, <<64752,
    <<1610,1605>>>>, <<64753, <<1610,1607>>>>, <<64754, <<1600,1614,1617>>>>,
    <<64755, <<1600,1615,1617>>>>, <<64756, <<1600,1616,1617>>>>, <<64757,
    <<1591,1609>>>>, <<64758, <<1591,1610>>>>, <<64759, <<1593,1609>>>>,
    <<64760, <<1593,1610>>>>, <<64761, <<1594,1609>>>>, <<64762,
    <<1594,1610>>>>, <<64763, <<1587,1609>>>>, <<64764, <<1587,1610>>>>,
    <<64765, <<1588,1609>>>>, <<64766, <<1588,1610>>>>, <<64767,
    <<1581,1609>>>>, <<64768, <<1581,1610>>>>, <<64769, <<1580,1609>>>>,
    <<64770, <<1580,1610>>>>, <<64771, <<1582,1609>>>>, <<64772,
    <<1582,1610>>>>, <<64773, <<1589,1609>>>>, <<64774, <<1589,1610>>>>,
    <<64775, <<1590,1609>>>>, <<64776, <<1590,1610>>>>, <<64777,
    <<1588,1580>>>>, <<64778, <<1588,1581>>>>, <<64779, <<1588,1582>>>>,
    <<64780, <<1588,1605>>>>, <<64781, <<1588,1585>>>>, <<64782,
    <<1587,1585>>>>, <<64783, <<1589,1585>>>>, <<64784, <<1590,1585>>>>,
    <<64785, <<1591,1609>>>>, <<64786, <<1591,1610>>>>, <<64787,
    <<1593,1609>>>>, <<64788, <<1593,1610>>>>, <<64789, <<1594,1609>>>>,
    <<64790, <<1594,1610>>>>, <<64791, <<1587,1609>>>>, <<64792,
    <<1587,1610>>>>, <<64793, <<1588,1609>>>>, <<64794, <<1588,1610>>>>,
    <<64795, <<1581,1609>>>>, <<64796, <<1581,1610>>>>, <<64797,
    <<1580,1609>>>>, <<64798, <<1580,1610>>>>, <<64799, <<1582,1609>>>>,
    <<64800, <<1582,1610>>>>, <<64801, <<1589,1609>>>>, <<64802,
    <<1589,1610>>>>, <<64803, <<1590,1609>>>>, <<64804, <<1590,1610>>>>,
    <<64805, <<1588,1580>>>>, <<64806, <<1588,1581>>>>, <<64807,
    <<1588,1582>>>>, <<64808, <<1588,1605>>>>, <<64809, <<1588,1585>>>>,
    <<64810, <<1587,1585>>>>, <<64811, <<1589,1585>>>>, <<64812,
    <<1590,1585>>>>, <<64813, <<1588,1580>>>>, <<64814, <<1588,1581>>>>,
    <<64815, <<1588,1582>>>>, <<64816, <<1588,1605>>>>, <<64817,
    <<1587,1607>>>>, <<64818, <<1588,1607>>>>, <<64819, <<1591,1605>>>>,
    <<64820, <<1587,1580>>>>, <<64821, <<1587,1581>>>>, <<64822,
    <<1587,1582>>>>, <<64823, <<1588,1580>>>>, <<64824, <<1588,1581>>>>,
    <<64825, <<1588,1582>>>>, <<64826, <<1591,1605>>>>, <<64827,
    <<1592,1605>>>>, <<64828, <<1575,1611>>>>, <<64829, <<1575,1611>>>>,
    <<64848, <<1578,1580,1605>>>>, <<64849, <<1578,1581,1580>>>>, <<64850,
    <<1578,1581,1580>>>>, <<64851, <<1578,1581,1605>>>>, <<64852,
    <<1578,1582,1605>>>>, <<64853, <<1578,1605,1580>>>>, <<64854,
    <<1578,1605,1581>>>>, <<64855, <<1578,1605,1582>>>>, <<64856,
    <<1580,1605,1581>>>>, <<64857, <<1580,1605,1581>>>>, <<64858,
    <<1581,1605,1610>>>>, <<64859, <<1581,1605,1609>>>>, <<64860,
    <<1587,1581,1580>>>>, <<64861, <<1587,1580,1581>>>>, <<64862,
    <<1587,1580,1609>>>>, <<64863, <<1587,1605,1581>>>>, <<64864,
    <<1587,1605,1581>>>>, <<64865, <<1587,1605,1580>>>>, <<64866,
    <<1587,1605,1605>>>>, <<64867, <<1587,1605,1605>>>>, <<64868,
    <<1589,1581,1581>>>>, <<64869, <<1589,1581,1581>>>>, <<64870,
    <<1589,1605,1605>>>>, <<64871, <<1588,1581,1605>>>>, <<64872,
    <<1588,1581,1605>>>>, <<64873, <<1588,1580,1610>>>>, <<64874,
    <<1588,1605,1582>>>>, <<64875, <<1588,1605,1582>>>>, <<64876,
    <<1588,1605,1605>>>>, <<64877, <<1588,1605,1605>>>>, <<64878,
    <<1590,1581,1609>>>>, <<64879, <<1590,1582,1605>>>>, <<64880,
    <<1590,1582,1605>>>>, <<64881, <<1591,1605,1581>>>>, <<64882,
    <<1591,1605,1581>>>>, <<64883, <<1591,1605,1605>>>>, <<64884,
    <<1591,1605,1610>>>>, <<64885, <<1593,1580,1605>>>>, <<64886,
    <<1593,1605,1605>>>>, <<64887, <<1593,1605,1605>>>>, <<64888,
    <<1593,1605,1609>>>>, <<64889, <<1594,1605,1605>>>>, <<64890,
    <<1594,1605,1610>>>>, <<64891, <<1594,1605,1609>>>>, <<64892,
    <<1601,1582,1605>>>>, <<64893, <<1601,1582,1605>>>>, <<64894,
    <<1602,1605,1581>>>>, <<64895, <<1602,1605,1605>>>>, <<64896,
    <<1604,1581,1605>>>>, <<64897, <<1604,1581,1610>>>>, <<64898,
    <<1604,1581,1609>>>>, <<64899, <<1604,1580,1580>>>>, <<64900,
    <<1604,1580,1580>>>>, <<64901, <<1604,1582,1605>>>>, <<64902,
    <<1604,1582,1605>>>>, <<64903, <<1604,1605,1581>>>>, <<64904,
    <<1604,1605,1581>>>>, <<64905, <<1605,1581,1580>>>>, <<64906,
    <<1605,1581,1605>>>>, <<64907, <<1605,1581,1610>>>>, <<64908,
    <<1605,1580,1581>>>>, <<64909, <<1605,1580,1605>>>>, <<64910,
    <<1605,1582,1580>>>>, <<64911, <<1605,1582,1605>>>>, <<64914,
    <<1605,1580,1582>>>>, <<64915, <<1607,1605,1580>>>>, <<64916,
    <<1607,1605,1605>>>>, <<64917, <<1606,1581,1605>>>>, <<64918,
    <<1606,1581,1609>>>>, <<64919, <<1606,1580,1605>>>>, <<64920,
    <<1606,1580,1605>>>>, <<64921, <<1606,1580,1609>>>>, <<64922,
    <<1606,1605,1610>>>>, <<64923, <<1606,1605,1609>>>>, <<64924,
    <<1610,1605,1605>>>>, <<64925, <<1610,1605,1605>>>>, <<64926,
    <<1576,1582,1610>>>>, <<64927, <<1578,1580,1610>>>>, <<64928,
    <<1578,1580,1609>>>>, <<64929, <<1578,1582,1610>>>>, <<64930,
    <<1578,1582,1609>>>>, <<64931, <<1578,1605,1610>>>>, <<64932,
    <<1578,1605,1609>>>>, <<64933, <<1580,1605,1610>>>>, <<64934,
    <<1580,1581,1609>>>>, <<64935, <<1580,1605,1609>>>>, <<64936,
    <<1587,1582,1609>>>>, <<64937, <<1589,1581,1610>>>>, <<64938,
    <<1588,1581,1610>>>>, <<64939, <<1590,1581,1610>>>>, <<64940,
    <<1604,1580,1610>>>>, <<64941, <<1604,1605,1610>>>>, <<64942,
    <<1610,1581,1610>>>>, <<64943, <<1610,1580,1610>>>>, <<64944,
    <<1610,1605,1610>>>>, <<64945, <<1605,1605,1610>>>>, <<64946,
    <<1602,1605,1610>>>>, <<64947, <<1606,1581,1610>>>>, <<64948,
    <<1602,1605,1581>>>>, <<64949, <<1604,1581,1605>>>>, <<64950,
    <<1593,1605,1610>>>>, <<64951, <<1603,1605,1610>>>>, <<64952,
    <<1606,1580,1581>>>>, <<64953, <<1605,1582,1610>>>>, <<64954,
    <<1604,1580,1605>>>>, <<64955, <<1603,1605,1605>>>>, <<64956,
    <<1604,1580,1605>>>>, <<64957, <<1606,1580,1581>>>>, <<64958,
    <<1580,1581,1610>>>>, <<64959, <<1581,1580,1610>>>>, <<64960,
    <<1605,1580,1610>>>>, <<64961, <<1601,1605,1610>>>>, <<64962,
    <<1576,1581,1610>>>>, <<64963, <<1603,1605,1605>>>>, <<64964,
    <<1593,1580,1605>>>>, <<64965, <<1589,1605,1605>>>>, <<64966,
    <<1587,1582,1610>>>>, <<64967, <<1606,1580,1610>>>>, <<65008,
    <<1589,1604,1746>>>>, <<65009, <<1602,1604,1746>>>>, <<65010,
    <<1575,1604,1604,1607>>>>, <<65011, <<1575,1603,1576,1585>>>>, <<65012,
    <<1605,1581,1605,1583>>>>, <<65013, <<1589,1604,1593,1605>>>>, <<65014,
    <<1585,1587,1608,1604>>>>, <<65015, <<1593,1604,1610,1607>>>>, <<65016,
    <<1608,1587,1604,1605>>>>, <<65017, <<1589,1604,1609>>>>, <<65018,
    <<1589,1604,1609,32,1575,1604,1604,1607,32,1593,1604,1610,1607,32,1608,1587,1604,1605>>>>,
    <<65019, <<1580,1604,32,1580,1604,1575,1604,1607>>>>, <<65020,
    <<1585,1740,1575,1604>>>>, <<65040, <<44>>>>, <<65041, <<12289>>>>,
    <<65042, <<12290>>>>, <<65043, <<58>>>>, <<65044, <<59>>>>, <<65045,
    <<33>>>>, <<65046, <<63>>>>, <<65047, <<12310>>>>, <<65048, <<12311>>>>,
    <<65049, <<46,46,46>>>>, <<65072, <<46,46>>>>, <<65073, <<8212>>>>,
    <<65074, <<8211>>>>, <<65075, <<95>>>>, <<65076, <<95>>>>, <<65077,
    <<40>>>>, <<65078, <<41>>>>, <<65079, <<123>>>>, <<65080, <<125>>>>,
    <<65081, <<12308>>>>, <<65082, <<12309>>>>, <<65083, <<12304>>>>, <<65084,
    <<12305>>>>, <<65085, <<12298>>>>, <<65086, <<12299>>>>, <<65087,
    <<12296>>>>, <<65088, <<12297>>>>, <<65089, <<12300>>>>, <<65090,
    <<12301>>>>, <<65091, <<12302>>>>, <<65092, <<12303>>>>, <<65095,
    <<91>>>>, <<65096, <<93>>>>, <<65097, <<32,773>>>>, <<65098, <<32,773>>>>,
    <<65099, <<32,773>>>>, <<65100, <<32,773>>>>, <<65101, <<95>>>>, <<65102,
    <<95>>>>, <<65103, <<95>>>>, <<65104, <<44>>>>, <<65105, <<12289>>>>,
    <<65106, <<46>>>>, <<65108, <<59>>>>, <<65109, <<58>>>>, <<65110,
    <<63>>>>, <<65111, <<33>>>>, <<65112, <<8212>>>>, <<65113, <<40>>>>,
    <<65114, <<41>>>>, <<65115, <<123>>>>, <<65116, <<125>>>>, <<65117,
    <<12308>>>>, <<65118, <<12309>>>>, <<65119, <<35>>>>, <<65120, <<38>>>>,
    <<65121, <<42>>>>, <<65122, <<43>>>>, <<65123, <<45>>>>, <<65124,
    <<60>>>>, <<65125, <<62>>>>, <<65126, <<61>>>>, <<65128, <<92>>>>,
    <<65129, <<36>>>>, <<65130, <<37>>>>, <<65131, <<64>>>>, <<65136,
    <<32,1611>>>>, <<65137, <<1600,1611>>>>, <<65138, <<32,1612>>>>, <<65140,
    <<32,1613>>>>, <<65142, <<32,1614>>>>, <<65143, <<1600,1614>>>>, <<65144,
    <<32,1615>>>>, <<65145, <<1600,1615>>>>, <<65146, <<32,1616>>>>, <<65147,
    <<1600,1616>>>>, <<65148, <<32,1617>>>>, <<65149, <<1600,1617>>>>,
    <<65150, <<32,1618>>>>, <<65151, <<1600,1618>>>>, <<65152, <<1569>>>>,
    <<65153, <<1575,1619>>>>, <<65154, <<1575,1619>>>>, <<65155,
    <<1575,1620>>>>, <<65156, <<1575,1620>>>>, <<65157, <<1608,1620>>>>,
    <<65158, <<1608,1620>>>>, <<65159, <<1575,1621>>>>, <<65160,
    <<1575,1621>>>>, <<65161, <<1610,1620>>>>, <<65162, <<1610,1620>>>>,
    <<65163, <<1610,1620>>>>, <<65164, <<1610,1620>>>>, <<65165, <<1575>>>>,
    <<65166, <<1575>>>>, <<65167, <<1576>>>>, <<65168, <<1576>>>>, <<65169,
    <<1576>>>>, <<65170, <<1576>>>>, <<65171, <<1577>>>>, <<65172, <<1577>>>>,
    <<65173, <<1578>>>>, <<65174, <<1578>>>>, <<65175, <<1578>>>>, <<65176,
    <<1578>>>>, <<65177, <<1579>>>>, <<65178, <<1579>>>>, <<65179, <<1579>>>>,
    <<65180, <<1579>>>>, <<65181, <<1580>>>>, <<65182, <<1580>>>>, <<65183,
    <<1580>>>>, <<65184, <<1580>>>>, <<65185, <<1581>>>>, <<65186, <<1581>>>>,
    <<65187, <<1581>>>>, <<65188, <<1581>>>>, <<65189, <<1582>>>>, <<65190,
    <<1582>>>>, <<65191, <<1582>>>>, <<65192, <<1582>>>>, <<65193, <<1583>>>>,
    <<65194, <<1583>>>>, <<65195, <<1584>>>>, <<65196, <<1584>>>>, <<65197,
    <<1585>>>>, <<65198, <<1585>>>>, <<65199, <<1586>>>>, <<65200, <<1586>>>>,
    <<65201, <<1587>>>>, <<65202, <<1587>>>>, <<65203, <<1587>>>>, <<65204,
    <<1587>>>>, <<65205, <<1588>>>>, <<65206, <<1588>>>>, <<65207, <<1588>>>>,
    <<65208, <<1588>>>>, <<65209, <<1589>>>>, <<65210, <<1589>>>>, <<65211,
    <<1589>>>>, <<65212, <<1589>>>>, <<65213, <<1590>>>>, <<65214, <<1590>>>>,
    <<65215, <<1590>>>>, <<65216, <<1590>>>>, <<65217, <<1591>>>>, <<65218,
    <<1591>>>>, <<65219, <<1591>>>>, <<65220, <<1591>>>>, <<65221, <<1592>>>>,
    <<65222, <<1592>>>>, <<65223, <<1592>>>>, <<65224, <<1592>>>>, <<65225,
    <<1593>>>>, <<65226, <<1593>>>>, <<65227, <<1593>>>>, <<65228, <<1593>>>>,
    <<65229, <<1594>>>>, <<65230, <<1594>>>>, <<65231, <<1594>>>>, <<65232,
    <<1594>>>>, <<65233, <<1601>>>>, <<65234, <<1601>>>>, <<65235, <<1601>>>>,
    <<65236, <<1601>>>>, <<65237, <<1602>>>>, <<65238, <<1602>>>>, <<65239,
    <<1602>>>>, <<65240, <<1602>>>>, <<65241, <<1603>>>>, <<65242, <<1603>>>>,
    <<65243, <<1603>>>>, <<65244, <<1603>>>>, <<65245, <<1604>>>>, <<65246,
    <<1604>>>>, <<65247, <<1604>>>>, <<65248, <<1604>>>>, <<65249, <<1605>>>>,
    <<65250, <<1605>>>>, <<65251, <<1605>>>>, <<65252, <<1605>>>>, <<65253,
    <<1606>>>>, <<65254, <<1606>>>>, <<65255, <<1606>>>>, <<65256, <<1606>>>>,
    <<65257, <<1607>>>>, <<65258, <<1607>>>>, <<65259, <<1607>>>>, <<65260,
    <<1607>>>>, <<65261, <<1608>>>>, <<65262, <<1608>>>>, <<65263, <<1609>>>>,
    <<65264, <<1609>>>>, <<65265, <<1610>>>>, <<65266, <<1610>>>>, <<65267,
    <<1610>>>>, <<65268, <<1610>>>>, <<65269, <<1604,1575,1619>>>>, <<65270,
    <<1604,1575,1619>>>>, <<65271, <<1604,1575,1620>>>>, <<65272,
    <<1604,1575,1620>>>>, <<65273, <<1604,1575,1621>>>>, <<65274,
    <<1604,1575,1621>>>>, <<65275, <<1604,1575>>>>, <<65276, <<1604,1575>>>>,
    <<65281, <<33>>>>, <<65282, <<34>>>>, <<65283, <<35>>>>, <<65284,
    <<36>>>>, <<65285, <<37>>>>, <<65286, <<38>>>>, <<65287, <<39>>>>,
    <<65288, <<40>>>>, <<65289, <<41>>>>, <<65290, <<42>>>>, <<65291,
    <<43>>>>, <<65292, <<44>>>>, <<65293, <<45>>>>, <<65294, <<46>>>>,
    <<65295, <<47>>>>, <<65296, <<48>>>>, <<65297, <<49>>>>, <<65298,
    <<50>>>>, <<65299, <<51>>>>, <<65300, <<52>>>>, <<65301, <<53>>>>,
    <<65302, <<54>>>>, <<65303, <<55>>>>, <<65304, <<56>>>>, <<65305,
    <<57>>>>, <<65306, <<58>>>>, <<65307, <<59>>>>, <<65308, <<60>>>>,
    <<65309, <<61>>>>, <<65310, <<62>>>>, <<65311, <<63>>>>, <<65312,
    <<64>>>>, <<65313, <<65>>>>, <<65314, <<66>>>>, <<65315, <<67>>>>,
    <<65316, <<68>>>>, <<65317, <<69>>>>, <<65318, <<70>>>>, <<65319,
    <<71>>>>, <<65320, <<72>>>>, <<65321, <<73>>>>, <<65322, <<74>>>>,
    <<65323, <<75>>>>, <<65324, <<76>>>>, <<65325, <<77>>>>, <<65326,
    <<78>>>>, <<65327, <<79>>>>, <<65328, <<80>>>>, <<65329, <<81>>>>,
    <<65330, <<82>>>>, <<65331, <<83>>>>, <<65332, <<84>>>>, <<65333,
    <<85>>>>, <<65334, <<86>>>>, <<65335, <<87>>>>, <<65336, <<88>>>>,
    <<65337, <<89>>>>, <<65338, <<90>>>>, <<65339, <<91>>>>, <<65340,
    <<92>>>>, <<65341, <<93>>>>, <<65342, <<94>>>>, <<65343, <<95>>>>,
    <<65344, <<96>>>>, <<65345, <<97>>>>, <<65346, <<98>>>>, <<65347,
    <<99>>>>, <<65348, <<100>>>>, <<65349, <<101>>>>, <<65350, <<102>>>>,
    <<65351, <<103>>>>, <<65352, <<104>>>>, <<65353, <<105>>>>, <<65354,
    <<106>>>>, <<65355, <<107>>>>, <<65356, <<108>>>>, <<65357, <<109>>>>,
    <<65358, <<110>>>>, <<65359, <<111>>>>, <<65360, <<112>>>>, <<65361,
    <<113>>>>, <<65362, <<114>>>>, <<65363, <<115>>>>, <<65364, <<116>>>>,
    <<65365, <<117>>>>, <<65366, <<118>>>>, <<65367, <<119>>>>, <<65368,
    <<120>>>>, <<65369, <<121>>>>, <<65370, <<122>>>>, <<65371, <<123>>>>,
    <<65372, <<124>>>>, <<65373, <<125>>>>, <<65374, <<126>>>>, <<65375,
    <<10629>>>>, <<65376, <<10630>>>>, <<65377, <<12290>>>>, <<65378,
    <<12300>>>>, <<65379, <<12301>>>>, <<65380, <<12289>>>>, <<65381,
    <<12539>>>>, <<65382, <<12530>>>>, <<65383, <<12449>>>>, <<65384,
    <<12451>>>>, <<65385, <<12453>>>>, <<65386, <<12455>>>>, <<65387,
    <<12457>>>>, <<65388, <<12515>>>>, <<65389, <<12517>>>>, <<65390,
    <<12519>>>>, <<65391, <<12483>>>>, <<65392, <<12540>>>>, <<65393,
    <<12450>>>>, <<65394, <<12452>>>>, <<65395, <<12454>>>>, <<65396,
    <<12456>>>>, <<65397, <<12458>>>>, <<65398, <<12459>>>>, <<65399,
    <<12461>>>>, <<65400, <<12463>>>>, <<65401, <<12465>>>>, <<65402,
    <<12467>>>>, <<65403, <<12469>>>>, <<65404, <<12471>>>>, <<65405,
    <<12473>>>>, <<65406, <<12475>>>>, <<65407, <<12477>>>>, <<65408,
    <<12479>>>>, <<65409, <<12481>>>>, <<65410, <<12484>>>>, <<65411,
    <<12486>>>>, <<65412, <<12488>>>>, <<65413, <<12490>>>>, <<65414,
    <<12491>>>>, <<65415, <<12492>>>>, <<65416, <<12493>>>>, <<65417,
    <<12494>>>>, <<65418, <<12495>>>>, <<65419, <<12498>>>>, <<65420,
    <<12501>>>>, <<65421, <<12504>>>>, <<65422, <<12507>>>>, <<65423,
    <<12510>>>>, <<65424, <<12511>>>>, <<65425, <<12512>>>>, <<65426,
    <<12513>>>>, <<65427, <<12514>>>>, <<65428, <<12516>>>>, <<65429,
    <<12518>>>>, <<65430, <<12520>>>>, <<65431, <<12521>>>>, <<65432,
    <<12522>>>>, <<65433, <<12523>>>>, <<65434, <<12524>>>>, <<65435,
    <<12525>>>>, <<65436, <<12527>>>>, <<65437, <<12531>>>>, <<65438,
    <<12441>>>>, <<65439, <<12442>>>>, <<65440, <<4448>>>>, <<65441,
    <<4352>>>>, <<65442, <<4353>>>>, <<65443, <<4522>>>>, <<65444, <<4354>>>>,
    <<65445, <<4524>>>>, <<65446, <<4525>>>>, <<65447, <<4355>>>>, <<65448,
    <<4356>>>>, <<65449, <<4357>>>>, <<65450, <<4528>>>>, <<65451, <<4529>>>>,
    <<65452, <<4530>>>>, <<65453, <<4531>>>>, <<65454, <<4532>>>>, <<65455,
    <<4533>>>>, <<65456, <<4378>>>>, <<65457, <<4358>>>>, <<65458, <<4359>>>>,
    <<65459, <<4360>>>>, <<65460, <<4385>>>>, <<65461, <<4361>>>>, <<65462,
    <<4362>>>>, <<65463, <<4363>>>>, <<65464, <<4364>>>>, <<65465, <<4365>>>>,
    <<65466, <<4366>>>>, <<65467, <<4367>>>>, <<65468, <<4368>>>>, <<65469,
    <<4369>>>>, <<65470, <<4370>>>>, <<65474, <<4449>>>>, <<65475, <<4450>>>>,
    <<65476, <<4451>>>>, <<65477, <<4452>>>>, <<65478, <<4453>>>>, <<65479,
    <<4454>>>>, <<65482, <<4455>>>>, <<65483, <<4456>>>>, <<65484, <<4457>>>>,
    <<65485, <<4458>>>>, <<65486, <<4459>>>>, <<65487, <<4460>>>>, <<65490,
    <<4461>>>>, <<65491, <<4462>>>>, <<65492, <<4463>>>>, <<65493, <<4464>>>>,
    <<65494, <<4465>>>>, <<65495, <<4466>>>>, <<65498, <<4467>>>>, <<65499,
    <<4468>>>>, <<65500, <<4469>>>>, <<65504, <<162>>>>, <<65505, <<163>>>>,
    <<65506, <<172>>>>, <<65507, <<32,772>>>>, <<65508, <<166>>>>, <<65509,
    <<165>>>>, <<65510, <<8361>>>>, <<65512, <<9474>>>>, <<65513, <<8592>>>>,
    <<65514, <<8593>>>>, <<65515, <<8594>>>>, <<65516, <<8595>>>>, <<65517,
    <<9632>>>>, <<65518, <<9675>>>>, <<67457, <<720>>>>, <<67458, <<721>>>>,
    <<67459, <<230>>>>, <<67460, <<665>>>>, <<67461, <<595>>>>, <<67463,
    <<675>>>>, <<67464, <<43878>>>>, <<67465, <<677>>>>, <<67466, <<676>>>>,
    <<67467, <<598>>>>, <<67468, <<599>>>>, <<67469, <<7569>>>>, <<67470,
    <<600>>>>, <<67471, <<606>>>>, <<67472, <<681>>>>, <<67473, <<612>>>>,
    <<67474, <<610>>>>, <<67475, <<608>>>>, <<67476, <<667>>>>, <<67477,
    <<295>>>>, <<67478, <<668>>>>, <<67479, <<615>>>>, <<67480, <<644>>>>,
    <<67481, <<682>>>>, <<67482, <<683>>>>, <<67483, <<620>>>>, <<67484,
    <<122628>>>>, <<67485, <<42894>>>>, <<67486, <<622>>>>, <<67487,
    <<122629>>>>, <<67488, <<654>>>>, <<67489, <<122630>>>>, <<67490,
    <<248>>>>, <<67491, <<630>>>>, <<67492, <<631>>>>, <<67493, <<113>>>>,
    <<67494, <<634>>>>, <<67495, <<122632>>>>, <<67496, <<637>>>>, <<67497,
    <<638>>>>, <<67498, <<640>>>>, <<67499, <<680>>>>, <<67500, <<678>>>>,
    <<67501, <<43879>>>>, <<67502, <<679>>>>, <<67503, <<648>>>>, <<67504,
    <<11377>>>>, <<67506, <<655>>>>, <<67507, <<673>>>>, <<67508, <<674>>>>,
    <<67509, <<664>>>>, <<67510, <<448>>>>, <<67511, <<449>>>>, <<67512,
    <<450>>>>, <<67513, <<122634>>>>, <<67514, <<122654>>>>, <<69786,
    <<69785,69818>>>>, <<69788, <<69787,69818>>>>, <<69803, <<69797,69818>>>>,
    <<69934, <<69937,69927>>>>, <<69935, <<69938,69927>>>>, <<70475,
    <<70471,70462>>>>, <<70476, <<70471,70487>>>>, <<70843, <<70841,70842>>>>,
    <<70844, <<70841,70832>>>>, <<70846, <<70841,70845>>>>, <<71098,
    <<71096,71087>>>>, <<71099, <<71097,71087>>>>, <<71992, <<71989,71984>>>>,
    <<119134, <<119127,119141>>>>, <<119135, <<119128,119141>>>>, <<119136,
    <<119128,119141,119150>>>>, <<119137, <<119128,119141,119151>>>>,
    <<119138, <<119128,119141,119152>>>>, <<119139,
    <<119128,119141,119153>>>>, <<119140, <<119128,119141,119154>>>>,
    <<119227, <<119225,119141>>>>, <<119228, <<119226,119141>>>>, <<119229,
    <<119225,119141,119150>>>>, <<119230, <<119226,119141,119150>>>>,
    <<119231, <<119225,119141,119151>>>>, <<119232,
    <<119226,119141,119151>>>>, <<119808, <<65>>>>, <<119809, <<66>>>>,
    <<119810, <<67>>>>, <<119811, <<68>>>>, <<119812, <<69>>>>, <<119813,
    <<70>>>>, <<119814, <<71>>>>, <<119815, <<72>>>>, <<119816, <<73>>>>,
    <<119817, <<74>>>>, <<119818, <<75>>>>, <<119819, <<76>>>>, <<119820,
    <<77>>>>, <<119821, <<78>>>>, <<119822, <<79>>>>, <<119823, <<80>>>>,
    <<119824, <<81>>>>, <<119825, <<82>>>>, <<119826, <<83>>>>, <<119827,
    <<84>>>>, <<119828, <<85>>>>, <<119829, <<86>>>>, <<119830, <<87>>>>,
    <<119831, <<88>>>>, <<119832, <<89>>>>, <<119833, <<90>>>>, <<119834,
    <<97>>>>, <<119835, <<98>>>>, <<119836, <<99>>>>, <<119837, <<100>>>>,
    <<119838, <<101>>>>, <<119839, <<102>>>>, <<119840, <<103>>>>, <<119841,
    <<104>>>>, <<119842, <<105>>>>, <<119843, <<106>>>>, <<119844, <<107>>>>,
    <<119845, <<108>>>>, <<119846, <<109>>>>, <<119847, <<110>>>>, <<119848,
    <<111>>>>, <<119849, <<112>>>>, <<119850, <<113>>>>, <<119851, <<114>>>>,
    <<119852, <<115>>>>, <<119853, <<116>>>>, <<119854, <<117>>>>, <<119855,
    <<118>>>>, <<119856, <<119>>>>, <<119857, <<120>>>>, <<119858, <<121>>>>,
    <<119859, <<122>>>>, <<119860, <<65>>>>, <<119861, <<66>>>>, <<119862,
    <<67>>>>, <<119863, <<68>>>>, <<119864, <<69>>>>, <<119865, <<70>>>>,
    <<119866, <<71>>>>, <<119867, <<72>>>>, <<119868, <<73>>>>, <<119869,
    <<74>>>>, <<119870, <<75>>>>, <<119871, <<76>>>>, <<119872, <<77>>>>,
    <<119873, <<78>>>>, <<119874, <<79>>>>, <<119875, <<80>>>>, <<119876,
    <<81>>>>, <<119877, <<82>>>>, <<119878, <<83>>>>, <<119879, <<84>>>>,
    <<119880, <<85>>>>, <<119881, <<86>>>>, <<119882, <<87>>>>, <<119883,
    <<88>>>>, <<119884, <<89>>>>, <<119885, <<90>>>>, <<119886, <<97>>>>,
    <<119887, <<98>>>>, <<119888, <<99>>>>, <<119889, <<100>>>>, <<119890,
    <<101>>>>, <<119891, <<102>>>>, <<119892, <<103>>>>, <<119894, <<105>>>>,
    <<119895, <<106>>>>, <<119896, <<107>>>>, <<119897, <<108>>>>, <<119898,
    <<109>>>>, <<119899, <<110>>>>, <<119900, <<111>>>>, <<119901, <<112>>>>,
    <<119902, <<113>>>>, <<119903, <<114>>>>, <<119904, <<115>>>>, <<119905,
    <<116>>>>, <<119906, <<117>>>>, <<119907, <<118>>>>, <<119908, <<119>>>>,
    <<119909, <<120>>>>, <<119910, <<121>>>>, <<119911, <<122>>>>, <<119912,
    <<65>>>>, <<119913, <<66>>>>, <<119914, <<67>>>>, <<119915, <<68>>>>,
    <<119916, <<69>>>>, <<119917, <<70>>>>, <<119918, <<71>>>>, <<119919,
    <<72>>>>, <<119920, <<73>>>>, <<119921, <<74>>>>, <<119922, <<75>>>>,
    <<119923, <<76>>>>, <<119924, <<77>>>>, <<119925, <<78>>>>, <<119926,
    <<79>>>>, <<119927, <<80>>>>, <<119928, <<81>>>>, <<119929, <<82>>>>,
    <<119930, <<83>>>>, <<119931, <<84>>>>, <<119932, <<85>>>>, <<119933,
    <<86>>>>, <<119934, <<87>>>>, <<119935, <<88>>>>, <<119936, <<89>>>>,
    <<119937, <<90>>>>, <<119938, <<97>>>>, <<119939, <<98>>>>, <<119940,
    <<99>>>>, <<119941, <<100>>>>, <<119942, <<101>>>>, <<119943, <<102>>>>,
    <<119944, <<103>>>>, <<119945, <<104>>>>, <<119946, <<105>>>>, <<119947,
    <<106>>>>, <<119948, <<107>>>>, <<119949, <<108>>>>, <<119950, <<109>>>>,
    <<119951, <<110>>>>, <<119952, <<111>>>>, <<119953, <<112>>>>, <<119954,
    <<113>>>>, <<119955, <<114>>>>, <<119956, <<115>>>>, <<119957, <<116>>>>,
    <<119958, <<117>>>>, <<119959, <<118>>>>, <<119960, <<119>>>>, <<119961,
    <<120>>>>, <<119962, <<121>>>>, <<119963, <<122>>>>, <<119964, <<65>>>>,
    <<119966, <<67>>>>, <<119967, <<68>>>>, <<119970, <<71>>>>, <<119973,
    <<74>>>>, <<119974, <<75>>>>, <<119977, <<78>>>>, <<119978, <<79>>>>,
    <<119979, <<80>>>>, <<119980, <<81>>>>, <<119982, <<83>>>>, <<119983,
    <<84>>>>, <<119984, <<85>>>>, <<119985, <<86>>>>, <<119986, <<87>>>>,
    <<119987, <<88>>>>, <<119988, <<89>>>>, <<119989, <<90>>>>, <<119990,
    <<97>>>>, <<119991, <<98>>>>, <<119992, <<99>>>>, <<119993, <<100>>>>,
    <<119995, <<102>>>>, <<119997, <<104>>>>, <<119998, <<105>>>>, <<119999,
    <<106>>>>, <<120000, <<107>>>>, <<120001, <<108>>>>, <<120002, <<109>>>>,
    <<120003, <<110>>>>, <<120005, <<112>>>>, <<120006, <<113>>>>, <<120007,
    <<114>>>>, <<120008, <<115>>>>, <<120009, <<116>>>>, <<120010, <<117>>>>,
    <<120011, <<118>>>>, <<120012, <<119>>>>, <<120013, <<120>>>>, <<120014,
    <<121>>>>, <<120015, <<122>>>>, <<120016, <<65>>>>, <<120017, <<66>>>>,
    <<120018, <<67>>>>, <<120019, <<68>>>>, <<120020, <<69>>>>, <<120021,
    <<70>>>>, <<120022, <<71>>>>, <<120023, <<72>>>>, <<120024, <<73>>>>,
    <<120025, <<74>>>>, <<120026, <<75>>>>, <<120027, <<76>>>>, <<120028,
    <<77>>>>, <<120029, <<78>>>>, <<120030, <<79>>>>, <<120031, <<80>>>>,
    <<120032, <<81>>>>, <<120033, <<82>>>>, <<120034, <<83>>>>, <<120035,
    <<84>>>>, <<120036, <<85>>>>, <<120037, <<86>>>>, <<120038, <<87>>>>,
    <<120039, <<88>>>>, <<120040, <<89>>>>, <<120041, <<90>>>>, <<120042,
    <<97>>>>, <<120043, <<98>>>>, <<120044, <<99>>>>, <<120045, <<100>>>>,
    <<120046, <<101>>>>, <<120047, <<102>>>>, <<120048, <<103>>>>, <<120049,
    <<104>>>>, <<120050, <<105>>>>, <<120051, <<106>>>>, <<120052, <<107>>>>,
    <<120053, <<108>>>>, <<120054, <<109>>>>, <<120055, <<110>>>>, <<120056,
    <<111>>>>, <<120057, <<112>>>>, <<120058, <<113>>>>, <<120059, <<114>>>>,
    <<120060, <<115>>>>, <<120061, <<116>>>>, <<120062, <<117>>>>, <<120063,
    <<118>>>>, <<120064, <<119>>>>, <<120065, <<120>>>>, <<120066, <<121>>>>,
    <<120067, <<122>>>>, <<120068, <<65>>>>, <<120069, <<66>>>>, <<120071,
    <<68>>>>, <<120072, <<69>>>>, <<120073, <<70>>>>, <<120074, <<71>>>>,
    <<120077, <<74>>>>, <<120078, <<75>>>>, <<120079, <<76>>>>, <<120080,
    <<77>>>>, <<120081, <<78>>>>, <<120082, <<79>>>>, <<120083, <<80>>>>,
    <<120084, <<81>>>>, <<120086, <<83>>>>, <<120087, <<84>>>>, <<120088,
    <<85>>>>, <<120089, <<86>>>>, <<120090, <<87>>>>, <<120091, <<88>>>>,
    <<120092, <<89>>>>, <<120094, <<97>>>>, <<120095, <<98>>>>, <<120096,
    <<99>>>>, <<120097, <<100>>>>, <<120098, <<101>>>>, <<120099, <<102>>>>,
    <<120100, <<103>>>>, <<120101, <<104>>>>, <<120102, <<105>>>>, <<120103,
    <<106>>>>, <<120104, <<107>>>>, <<120105, <<108>>>>, <<120106, <<109>>>>,
    <<120107, <<110>>>>, <<120108, <<111>>>>, <<120109, <<112>>>>, <<120110,
    <<113>>>>, <<120111, <<114>>>>, <<120112, <<115>>>>, <<120113, <<116>>>>,
    <<120114, <<117>>>>, <<120115, <<118>>>>, <<120116, <<119>>>>, <<120117,
    <<120>>>>, <<120118, <<121>>>>, <<120119, <<122>>>>, <<120120, <<65>>>>,
    <<120121, <<66>>>>, <<120123, <<68>>>>, <<120124, <<69>>>>, <<120125,
    <<70>>>>, <<120126, <<71>>>>, <<120128, <<73>>>>, <<120129, <<74>>>>,
    <<120130, <<75>>>>, <<120131, <<76>>>>, <<120132, <<77>>>>, <<120134,
    <<79>>>>, <<120138, <<83>>>>, <<120139, <<84>>>>, <<120140, <<85>>>>,
    <<120141, <<86>>>>, <<120142, <<87>>>>, <<120143, <<88>>>>, <<120144,
    <<89>>>>, <<120146, <<97>>>>, <<120147, <<98>>>>, <<120148, <<99>>>>,
    <<120149, <<100>>>>, <<120150, <<101>>>>, <<120151, <<102>>>>, <<120152,
    <<103>>>>, <<120153, <<104>>>>, <<120154, <<105>>>>, <<120155, <<106>>>>,
    <<120156, <<107>>>>, <<120157, <<108>>>>, <<120158, <<109>>>>, <<120159,
    <<110>>>>, <<120160, <<111>>>>, <<120161, <<112>>>>, <<120162, <<113>>>>,
    <<120163, <<114>>>>, <<120164, <<115>>>>, <<120165, <<116>>>>, <<120166,
    <<117>>>>, <<120167, <<118>>>>, <<120168, <<119>>>>, <<120169, <<120>>>>,
    <<120170, <<121>>>>, <<120171, <<122>>>>, <<120172, <<65>>>>, <<120173,
    <<66>>>>, <<120174, <<67>>>>, <<120175, <<68>>>>, <<120176, <<69>>>>,
    <<120177, <<70>>>>, <<120178, <<71>>>>, <<120179, <<72>>>>, <<120180,
    <<73>>>>, <<120181, <<74>>>>, <<120182, <<75>>>>, <<120183, <<76>>>>,
    <<120184, <<77>>>>, <<120185, <<78>>>>, <<120186, <<79>>>>, <<120187,
    <<80>>>>, <<120188, <<81>>>>, <<120189, <<82>>>>, <<120190, <<83>>>>,
    <<120191, <<84>>>>, <<120192, <<85>>>>, <<120193, <<86>>>>, <<120194,
    <<87>>>>, <<120195, <<88>>>>, <<120196, <<89>>>>, <<120197, <<90>>>>,
    <<120198, <<97>>>>, <<120199, <<98>>>>, <<120200, <<99>>>>, <<120201,
    <<100>>>>, <<120202, <<101>>>>, <<120203, <<102>>>>, <<120204, <<103>>>>,
    <<120205, <<104>>>>, <<120206, <<105>>>>, <<120207, <<106>>>>, <<120208,
    <<107>>>>, <<120209, <<108>>>>, <<120210, <<109>>>>, <<120211, <<110>>>>,
    <<120212, <<111>>>>, <<120213, <<112>>>>, <<120214, <<113>>>>, <<120215,
    <<114>>>>, <<120216, <<115>>>>, <<120217, <<116>>>>, <<120218, <<117>>>>,
    <<120219, <<118>>>>, <<120220, <<119>>>>, <<120221, <<120>>>>, <<120222,
    <<121>>>>, <<120223, <<122>>>>, <<120224, <<65>>>>, <<120225, <<66>>>>,
    <<120226, <<67>>>>, <<120227, <<68>>>>, <<120228, <<69>>>>, <<120229,
    <<70>>>>, <<120230, <<71>>>>, <<120231, <<72>>>>, <<120232, <<73>>>>,
    <<120233, <<74>>>>, <<120234, <<75>>>>, <<120235, <<76>>>>, <<120236,
    <<77>>>>, <<120237, <<78>>>>, <<120238, <<79>>>>, <<120239, <<80>>>>,
    <<120240, <<81>>>>, <<120241, <<82>>>>, <<120242, <<83>>>>, <<120243,
    <<84>>>>, <<120244, <<85>>>>, <<120245, <<86>>>>, <<120246, <<87>>>>,
    <<120247, <<88>>>>, <<120248, <<89>>>>, <<120249, <<90>>>>, <<120250,
    <<97>>>>, <<120251, <<98>>>>, <<120252, <<99>>>>, <<120253, <<100>>>>,
    <<120254, <<101>>>>, <<120255, <<102>>>>, <<120256, <<103>>>>, <<120257,
    <<104>>>>, <<120258, <<105>>>>, <<120259, <<106>>>>, <<120260, <<107>>>>,
    <<120261, <<108>>>>, <<120262, <<109>>>>, <<120263, <<110>>>>, <<120264,
    <<111>>>>, <<120265, <<112>>>>, <<120266, <<113>>>>, <<120267, <<114>>>>,
    <<120268, <<115>>>>, <<120269, <<116>>>>, <<120270, <<117>>>>, <<120271,
    <<118>>>>, <<120272, <<119>>>>, <<120273, <<120>>>>, <<120274, <<121>>>>,
    <<120275, <<122>>>>, <<120276, <<65>>>>, <<120277, <<66>>>>, <<120278,
    <<67>>>>, <<120279, <<68>>>>, <<120280, <<69>>>>, <<120281, <<70>>>>,
    <<120282, <<71>>>>, <<120283, <<72>>>>, <<120284, <<73>>>>, <<120285,
    <<74>>>>, <<120286, <<75>>>>, <<120287, <<76>>>>, <<120288, <<77>>>>,
    <<120289, <<78>>>>, <<120290, <<79>>>>, <<120291, <<80>>>>, <<120292,
    <<81>>>>, <<120293, <<82>>>>, <<120294, <<83>>>>, <<120295, <<84>>>>,
    <<120296, <<85>>>>, <<120297, <<86>>>>, <<120298, <<87>>>>, <<120299,
    <<88>>>>, <<120300, <<89>>>>, <<120301, <<90>>>>, <<120302, <<97>>>>,
    <<120303, <<98>>>>, <<120304, <<99>>>>, <<120305, <<100>>>>, <<120306,
    <<101>>>>, <<120307, <<102>>>>, <<120308, <<103>>>>, <<120309, <<104>>>>,
    <<120310, <<105>>>>, <<120311, <<106>>>>, <<120312, <<107>>>>, <<120313,
    <<108>>>>, <<120314, <<109>>>>, <<120315, <<110>>>>, <<120316, <<111>>>>,
    <<120317, <<112>>>>, <<120318, <<113>>>>, <<120319, <<114>>>>, <<120320,
    <<115>>>>, <<120321, <<116>>>>, <<120322, <<117>>>>, <<120323, <<118>>>>,
    <<120324, <<119>>>>, <<120325, <<120>>>>, <<120326, <<121>>>>, <<120327,
    <<122>>>>, <<120328, <<65>>>>, <<120329, <<66>>>>, <<120330, <<67>>>>,
    <<120331, <<68>>>>, <<120332, <<69>>>>, <<120333, <<70>>>>, <<120334,
    <<71>>>>, <<120335, <<72>>>>, <<120336, <<73>>>>, <<120337, <<74>>>>,
    <<120338, <<75>>>>, <<120339, <<76>>>>, <<120340, <<77>>>>, <<120341,
    <<78>>>>, <<120342, <<79>>>>, <<120343, <<80>>>>, <<120344, <<81>>>>,
    <<120345, <<82>>>>, <<120346, <<83>>>>, <<120347, <<84>>>>, <<120348,
    <<85>>>>, <<120349, <<86>>>>, <<120350, <<87>>>>, <<120351, <<88>>>>,
    <<120352, <<89>>>>, <<120353, <<90>>>>, <<120354, <<97>>>>, <<120355,
    <<98>>>>, <<120356, <<99>>>>, <<120357, <<100>>>>, <<120358, <<101>>>>,
    <<120359, <<102>>>>, <<120360, <<103>>>>, <<120361, <<104>>>>, <<120362,
    <<105>>>>, <<120363, <<106>>>>, <<120364, <<107>>>>, <<120365, <<108>>>>,
    <<120366, <<109>>>>, <<120367, <<110>>>>, <<120368, <<111>>>>, <<120369,
    <<112>>>>, <<120370, <<113>>>>, <<120371, <<114>>>>, <<120372, <<115>>>>,
    <<120373, <<116>>>>, <<120374, <<117>>>>, <<120375, <<118>>>>, <<120376,
    <<119>>>>, <<120377, <<120>>>>, <<120378, <<121>>>>, <<120379, <<122>>>>,
    <<120380, <<65>>>>, <<120381, <<66>>>>, <<120382, <<67>>>>, <<120383,
    <<68>>>>, <<120384, <<69>>>>, <<120385, <<70>>>>, <<120386, <<71>>>>,
    <<120387, <<72>>>>, <<120388, <<73>>>>, <<120389, <<74>>>>, <<120390,
    <<75>>>>, <<120391, <<76>>>>, <<120392, <<77>>>>, <<120393, <<78>>>>,
    <<120394, <<79>>>>, <<120395, <<80>>>>, <<120396, <<81>>>>, <<120397,
    <<82>>>>, <<120398, <<83>>>>, <<120399, <<84>>>>, <<120400, <<85>>>>,
    <<120401, <<86>>>>, <<120402, <<87>>>>, <<120403, <<88>>>>, <<120404,
    <<89>>>>, <<120405, <<90>>>>, <<120406, <<97>>>>, <<120407, <<98>>>>,
    <<120408, <<99>>>>, <<120409, <<100>>>>, <<120410, <<101>>>>, <<120411,
    <<102>>>>, <<120412, <<103>>>>, <<120413, <<104>>>>, <<120414, <<105>>>>,
    <<120415, <<106>>>>, <<120416, <<107>>>>, <<120417, <<108>>>>, <<120418,
    <<109>>>>, <<120419, <<110>>>>, <<120420, <<111>>>>, <<120421, <<112>>>>,
    <<120422, <<113>>>>, <<120423, <<114>>>>, <<120424, <<115>>>>, <<120425,
    <<116>>>>, <<120426, <<117>>>>, <<120427, <<118>>>>, <<120428, <<119>>>>,
    <<120429, <<120>>>>, <<120430, <<121>>>>, <<120431, <<122>>>>, <<120432,
    <<65>>>>, <<120433, <<66>>>>, <<120434, <<67>>>>, <<120435, <<68>>>>,
    <<120436, <<69>>>>, <<120437, <<70>>>>, <<120438, <<71>>>>, <<120439,
    <<72>>>>, <<120440, <<73>>>>, <<120441, <<74>>>>, <<120442, <<75>>>>,
    <<120443, <<76>>>>, <<120444, <<77>>>>, <<120445, <<78>>>>, <<120446,
    <<79>>>>, <<120447, <<80>>>>, <<120448, <<81>>>>, <<120449, <<82>>>>,
    <<120450, <<83>>>>, <<120451, <<84>>>>, <<120452, <<85>>>>, <<120453,
    <<86>>>>, <<120454, <<87>>>>, <<120455, <<88>>>>, <<120456, <<89>>>>,
    <<120457, <<90>>>>, <<120458, <<97>>>>, <<120459, <<98>>>>, <<120460,
    <<99>>>>, <<120461, <<100>>>>, <<120462, <<101>>>>, <<120463, <<102>>>>,
    <<120464, <<103>>>>, <<120465, <<104>>>>, <<120466, <<105>>>>, <<120467,
    <<106>>>>, <<120468, <<107>>>>, <<120469, <<108>>>>, <<120470, <<109>>>>,
    <<120471, <<110>>>>, <<120472, <<111>>>>, <<120473, <<112>>>>, <<120474,
    <<113>>>>, <<120475, <<114>>>>, <<120476, <<115>>>>, <<120477, <<116>>>>,
    <<120478, <<117>>>>, <<120479, <<118>>>>, <<120480, <<119>>>>, <<120481,
    <<120>>>>, <<120482, <<121>>>>, <<120483, <<122>>>>, <<120484, <<305>>>>,
    <<120485, <<567>>>>, <<120488, <<913>>>>, <<120489, <<914>>>>, <<120490,
    <<915>>>>, <<120491, <<916>>>>, <<120492, <<917>>>>, <<120493, <<918>>>>,
    <<120494, <<919>>>>, <<120495, <<920>>>>, <<120496, <<921>>>>, <<120497,
    <<922>>>>, <<120498, <<923>>>>, <<120499, <<924>>>>, <<120500, <<925>>>>,
    <<120501, <<926>>>>, <<120502, <<927>>>>, <<120503, <<928>>>>, <<120504,
    <<929>>>>, <<120505, <<920>>>>, <<120506, <<931>>>>, <<120507, <<932>>>>,
    <<120508, <<933>>>>, <<120509, <<934>>>>, <<120510, <<935>>>>, <<120511,
    <<936>>>>, <<120512, <<937>>>>, <<120513, <<8711>>>>, <<120514, <<945>>>>,
    <<120515, <<946>>>>, <<120516, <<947>>>>, <<120517, <<948>>>>, <<120518,
    <<949>>>>, <<120519, <<950>>>>, <<120520, <<951>>>>, <<120521, <<952>>>>,
    <<120522, <<953>>>>, <<120523, <<954>>>>, <<120524, <<955>>>>, <<120525,
    <<956>>>>, <<120526, <<957>>>>, <<120527, <<958>>>>, <<120528, <<959>>>>,
    <<120529, <<960>>>>, <<120530, <<961>>>>, <<120531, <<962>>>>, <<120532,
    <<963>>>>, <<120533, <<964>>>>, <<120534, <<965>>>>, <<120535, <<966>>>>,
    <<120536, <<967>>>>, <<120537, <<968>>>>, <<120538, <<969>>>>, <<120539,
    <<8706>>>>, <<120540, <<949>>>>, <<120541, <<952>>>>, <<120542, <<954>>>>,
    <<120543, <<966>>>>, <<120544, <<961>>>>, <<120545, <<960>>>>, <<120546,
    <<913>>>>, <<120547, <<914>>>>, <<120548, <<915>>>>, <<120549, <<916>>>>,
    <<120550, <<917>>>>, <<120551, <<918>>>>, <<120552, <<919>>>>, <<120553,
    <<920>>>>, <<120554, <<921>>>>, <<120555, <<922>>>>, <<120556, <<923>>>>,
    <<120557, <<924>>>>, <<120558, <<925>>>>, <<120559, <<926>>>>, <<120560,
    <<927>>>>, <<120561, <<928>>>>, <<120562, <<929>>>>, <<120563, <<920>>>>,
    <<120564, <<931>>>>, <<120565, <<932>>>>, <<120566, <<933>>>>, <<120567,
    <<934>>>>, <<120568, <<935>>>>, <<120569, <<936>>>>, <<120570, <<937>>>>,
    <<120571, <<8711>>>>, <<120572, <<945>>>>, <<120573, <<946>>>>, <<120574,
    <<947>>>>, <<120575, <<948>>>>, <<120576, <<949>>>>, <<120577, <<950>>>>,
    <<120578, <<951>>>>, <<120579, <<952>>>>, <<120580, <<953>>>>, <<120581,
    <<954>>>>, <<120582, <<955>>>>, <<120583, <<956>>>>, <<120584, <<957>>>>,
    <<120585, <<958>>>>, <<120586, <<959>>>>, <<120587, <<960>>>>, <<120588,
    <<961>>>>, <<120589, <<962>>>>, <<120590, <<963>>>>, <<120591, <<964>>>>,
    <<120592, <<965>>>>, <<120593, <<966>>>>, <<120594, <<967>>>>, <<120595,
    <<968>>>>, <<120596, <<969>>>>, <<120597, <<8706>>>>, <<120598, <<949>>>>,
    <<120599, <<952>>>>, <<120600, <<954>>>>, <<120601, <<966>>>>, <<120602,
    <<961>>>>, <<120603, <<960>>>>, <<120604, <<913>>>>, <<120605, <<914>>>>,
    <<120606, <<915>>>>, <<120607, <<916>>>>, <<120608, <<917>>>>, <<120609,
    <<918>>>>, <<120610, <<919>>>>, <<120611, <<920>>>>, <<120612, <<921>>>>,
    <<120613, <<922>>>>, <<120614, <<923>>>>, <<120615, <<924>>>>, <<120616,
    <<925>>>>, <<120617, <<926>>>>, <<120618, <<927>>>>, <<120619, <<928>>>>,
    <<120620, <<929>>>>, <<120621, <<920>>>>, <<120622, <<931>>>>, <<120623,
    <<932>>>>, <<120624, <<933>>>>, <<120625, <<934>>>>, <<120626, <<935>>>>,
    <<120627, <<936>>>>, <<120628, <<937>>>>, <<120629, <<8711>>>>, <<120630,
    <<945>>>>, <<120631, <<946>>>>, <<120632, <<947>>>>, <<120633, <<948>>>>,
    <<120634, <<949>>>>, <<120635, <<950>>>>, <<120636, <<951>>>>, <<120637,
    <<952>>>>, <<120638, <<953>>>>, <<120639, <<954>>>>, <<120640, <<955>>>>,
    <<120641, <<956>>>>, <<120642, <<957>>>>, <<120643, <<958>>>>, <<120644,
    <<959>>>>, <<120645, <<960>>>>, <<120646, <<961>>>>, <<120647, <<962>>>>,
    <<120648, <<963>>>>, <<120649, <<964>>>>, <<120650, <<965>>>>, <<120651,
    <<966>>>>, <<120652, <<967>>>>, <<120653, <<968>>>>, <<120654, <<969>>>>,
    <<120655, <<8706>>>>, <<120656, <<949>>>>, <<120657, <<952>>>>, <<120658,
    <<954>>>>, <<120659, <<966>>>>, <<120660, <<961>>>>, <<120661, <<960>>>>,
    <<120662, <<913>>>>, <<120663, <<914>>>>, <<120664, <<915>>>>, <<120665,
    <<916>>>>, <<120666, <<917>>>>, <<120667, <<918>>>>, <<120668, <<919>>>>,
    <<120669, <<920>>>>, <<120670, <<921>>>>, <<120671, <<922>>>>, <<120672,
    <<923>>>>, <<120673, <<924>>>>, <<120674, <<925>>>>, <<120675, <<926>>>>,
    <<120676, <<927>>>>, <<120677, <<928>>>>, <<120678, <<929>>>>, <<120679,
    <<920>>>>, <<120680, <<931>>>>, <<120681, <<932>>>>, <<120682, <<933>>>>,
    <<120683, <<934>>>>, <<120684, <<935>>>>, <<120685, <<936>>>>, <<120686,
    <<937>>>>, <<120687, <<8711>>>>, <<120688, <<945>>>>, <<120689, <<946>>>>,
    <<120690, <<947>>>>, <<120691, <<948>>>>, <<120692, <<949>>>>, <<120693,
    <<950>>>>, <<120694, <<951>>>>, <<120695, <<952>>>>, <<120696, <<953>>>>,
    <<120697, <<954>>>>, <<120698, <<955>>>>, <<120699, <<956>>>>, <<120700,
    <<957>>>>, <<120701, <<958>>>>, <<120702, <<959>>>>, <<120703, <<960>>>>,
    <<120704, <<961>>>>, <<120705, <<962>>>>, <<120706, <<963>>>>, <<120707,
    <<964>>>>, <<120708, <<965>>>>, <<120709, <<966>>>>, <<120710, <<967>>>>,
    <<120711, <<968>>>>, <<120712, <<969>>>>, <<120713, <<8706>>>>, <<120714,
    <<949>>>>, <<120715, <<952>>>>, <<120716, <<954>>>>, <<120717, <<966>>>>,
    <<120718, <<961>>>>, <<120719, <<960>>>>, <<120720, <<913>>>>, <<120721,
    <<914>>>>, <<120722, <<915>>>>, <<120723, <<916>>>>, <<120724, <<917>>>>,
    <<120725, <<918>>>>, <<120726, <<919>>>>, <<120727, <<920>>>>, <<120728,
    <<921>>>>, <<120729, <<922>>>>, <<120730, <<923>>>>, <<120731, <<924>>>>,
    <<120732, <<925>>>>, <<120733, <<926>>>>, <<120734, <<927>>>>, <<120735,
    <<928>>>>, <<120736, <<929>>>>, <<120737, <<920>>>>, <<120738, <<931>>>>,
    <<120739, <<932>>>>, <<120740, <<933>>>>, <<120741, <<934>>>>, <<120742,
    <<935>>>>, <<120743, <<936>>>>, <<120744, <<937>>>>, <<120745, <<8711>>>>,
    <<120746, <<945>>>>, <<120747, <<946>>>>, <<120748, <<947>>>>, <<120749,
    <<948>>>>, <<120750, <<949>>>>, <<120751, <<950>>>>, <<120752, <<951>>>>,
    <<120753, <<952>>>>, <<120754, <<953>>>>, <<120755, <<954>>>>, <<120756,
    <<955>>>>, <<120757, <<956>>>>, <<120758, <<957>>>>, <<120759, <<958>>>>,
    <<120760, <<959>>>>, <<120761, <<960>>>>, <<120762, <<961>>>>, <<120763,
    <<962>>>>, <<120764, <<963>>>>, <<120765, <<964>>>>, <<120766, <<965>>>>,
    <<120767, <<966>>>>, <<120768, <<967>>>>, <<120769, <<968>>>>, <<120770,
    <<969>>>>, <<120771, <<8706>>>>, <<120772, <<949>>>>, <<120773, <<952>>>>,
    <<120774, <<954>>>>, <<120775, <<966>>>>, <<120776, <<961>>>>, <<120777,
    <<960>>>>, <<120778, <<988>>>>, <<120779, <<989>>>>, <<120782, <<48>>>>,
    <<120783, <<49>>>>, <<120784, <<50>>>>, <<120785, <<51>>>>, <<120786,
    <<52>>>>, <<120787, <<53>>>>, <<120788, <<54>>>>, <<120789, <<55>>>>,
    <<120790, <<56>>>>, <<120791, <<57>>>>, <<120792, <<48>>>>, <<120793,
    <<49>>>>, <<120794, <<50>>>>, <<120795, <<51>>>>, <<120796, <<52>>>>,
    <<120797, <<53>>>>, <<120798, <<54>>>>, <<120799, <<55>>>>, <<120800,
    <<56>>>>, <<120801, <<57>>>>, <<120802, <<48>>>>, <<120803, <<49>>>>,
    <<120804, <<50>>>>, <<120805, <<51>>>>, <<120806, <<52>>>>, <<120807,
    <<53>>>>, <<120808, <<54>>>>, <<120809, <<55>>>>, <<120810, <<56>>>>,
    <<120811, <<57>>>>, <<120812, <<48>>>>, <<120813, <<49>>>>, <<120814,
    <<50>>>>, <<120815, <<51>>>>, <<120816, <<52>>>>, <<120817, <<53>>>>,
    <<120818, <<54>>>>, <<120819, <<55>>>>, <<120820, <<56>>>>, <<120821,
    <<57>>>>, <<120822, <<48>>>>, <<120823, <<49>>>>, <<120824, <<50>>>>,
    <<120825, <<51>>>>, <<120826, <<52>>>>, <<120827, <<53>>>>, <<120828,
    <<54>>>>, <<120829, <<55>>>>, <<120830, <<56>>>>, <<120831, <<57>>>>,
    <<126464, <<1575>>>>, <<126465, <<1576>>>>, <<126466, <<1580>>>>,
    <<126467, <<1583>>>>, <<126469, <<1608>>>>, <<126470, <<1586>>>>,
    <<126471, <<1581>>>>, <<126472, <<1591>>>>, <<126473, <<1610>>>>,
    <<126474, <<1603>>>>, <<126475, <<1604>>>>, <<126476, <<1605>>>>,
    <<126477, <<1606>>>>, <<126478, <<1587>>>>, <<126479, <<1593>>>>,
    <<126480, <<1601>>>>, <<126481, <<1589>>>>, <<126482, <<1602>>>>,
    <<126483, <<1585>>>>, <<126484, <<1588>>>>, <<126485, <<1578>>>>,
    <<126486, <<1579>>>>, <<126487, <<1582>>>>, <<126488, <<1584>>>>,
    <<126489, <<1590>>>>, <<126490, <<1592>>>>, <<126491, <<1594>>>>,
    <<126492, <<1646>>>>, <<126493, <<1722>>>>, <<126494, <<1697>>>>,
    <<126495, <<1647>>>>, <<126497, <<1576>>>>, <<126498, <<1580>>>>,
    <<126500, <<1607>>>>, <<126503, <<1581>>>>, <<126505, <<1610>>>>,
    <<126506, <<1603>>>>, <<126507, <<1604>>>>, <<126508, <<1605>>>>,
    <<126509, <<1606>>>>, <<126510, <<1587>>>>, <<126511, <<1593>>>>,
    <<126512, <<1601>>>>, <<126513, <<1589>>>>, <<126514, <<1602>>>>,
    <<126516, <<1588>>>>, <<126517, <<1578>>>>, <<126518, <<1579>>>>,
    <<126519, <<1582>>>>, <<126521, <<1590>>>>, <<126523, <<1594>>>>,
    <<126530, <<1580>>>>, <<126535, <<1581>>>>, <<126537, <<1610>>>>,
    <<126539, <<1604>>>>, <<126541, <<1606>>>>, <<126542, <<1587>>>>,
    <<126543, <<1593>>>>, <<126545, <<1589>>>>, <<126546, <<1602>>>>,
    <<126548, <<1588>>>>, <<126551, <<1582>>>>, <<126553, <<1590>>>>,
    <<126555, <<1594>>>>, <<126557, <<1722>>>>, <<126559, <<1647>>>>,
    <<126561, <<1576>>>>, <<126562, <<1580>>>>, <<126564, <<1607>>>>,
    <<126567, <<1581>>>>, <<126568, <<1591>>>>, <<126569, <<1610>>>>,
    <<126570, <<1603>>>>, <<126572, <<1605>>>>, <<126573, <<1606>>>>,
    <<126574, <<1587>>>>, <<126575, <<1593>>>>, <<126576, <<1601>>>>,
    <<126577, <<1589>>>>, <<126578, <<1602>>>>, <<126580, <<1588>>>>,
    <<126581, <<1578>>>>, <<126582, <<1579>>>>, <<126583, <<1582>>>>,
    <<126585, <<1590>>>>, <<126586, <<1592>>>>, <<126587, <<1594>>>>,
    <<126588, <<1646>>>>, <<126590, <<1697>>>>, <<126592, <<1575>>>>,
    <<126593, <<1576>>>>, <<126594, <<1580>>>>, <<126595, <<1583>>>>,
    <<126596, <<1607>>>>, <<126597, <<1608>>>>, <<126598, <<1586>>>>,
    <<126599, <<1581>>>>, <<126600, <<1591>>>>, <<126601, <<1610>>>>,
    <<126603, <<1604>>>>, <<126604, <<1605>>>>, <<126605, <<1606>>>>,
    <<126606, <<1587>>>>, <<126607, <<1593>>>>, <<126608, <<1601>>>>,
    <<126609, <<1589>>>>, <<126610, <<1602>>>>, <<126611, <<1585>>>>,
    <<126612, <<1588>>>>, <<126613, <<1578>>>>, <<126614, <<1579>>>>,
    <<126615, <<1582>>>>, <<126616, <<1584>>>>, <<126617, <<1590>>>>,
    <<126618, <<1592>>>>, <<126619, <<1594>>>>, <<126625, <<1576>>>>,
    <<126626, <<1580>>>>, <<126627, <<1583>>>>, <<126629, <<1608>>>>,
    <<126630, <<1586>>>>, <<126631, <<1581>>>>, <<126632, <<1591>>>>,
    <<126633, <<1610>>>>, <<126635, <<1604>>>>, <<126636, <<1605>>>>,
    <<126637, <<1606>>>>, <<126638, <<1587>>>>, <<126639, <<1593>>>>,
    <<126640, <<1601>>>>, <<126641, <<1589>>>>, <<126642, <<1602>>>>,
    <<126643, <<1585>>>>, <<126644, <<1588>>>>, <<126645, <<1578>>>>,
    <<126646, <<1579>>>>, <<126647, <<1582>>>>, <<126648, <<1584>>>>,
    <<126649, <<1590>>>>, <<126650, <<1592>>>>, <<126651, <<1594>>>>,
    <<127232, <<48,46>>>>, <<127233, <<48,44>>>>, <<127234, <<49,44>>>>,
    <<127235, <<50,44>>>>, <<127236, <<51,44>>>>, <<127237, <<52,44>>>>,
    <<127238, <<53,44>>>>, <<127239, <<54,44>>>>, <<127240, <<55,44>>>>,
    <<127241, <<56,44>>>>, <<127242, <<57,44>>>>, <<127248, <<40,65,41>>>>,
    <<127249, <<40,66,41>>>>, <<127250, <<40,67,41>>>>, <<127251,
    <<40,68,41>>>>, <<127252, <<40,69,41>>>>, <<127253, <<40,70,41>>>>,
    <<127254, <<40,71,41>>>>, <<127255, <<40,72,41>>>>, <<127256,
    <<40,73,41>>>>, <<127257, <<40,74,41>>>>, <<127258, <<40,75,41>>>>,
    <<127259, <<40,76,41>>>>, <<127260, <<40,77,41>>>>, <<127261,
    <<40,78,41>>>>, <<127262, <<40,79,41>>>>, <<127263, <<40,80,41>>>>,
    <<127264, <<40,81,41>>>>, <<127265, <<40,82,41>>>>, <<127266,
    <<40,83,41>>>>, <<127267, <<40,84,41>>>>, <<127268, <<40,85,41>>>>,
    <<127269, <<40,86,41>>>>, <<127270, <<40,87,41>>>>, <<127271,
    <<40,88,41>>>>, <<127272, <<40,89,41>>>>, <<127273, <<40,90,41>>>>,
    <<127274, <<12308,83,12309>>>>, <<127275, <<67>>>>, <<127276, <<82>>>>,
    <<127277, <<67,68>>>>, <<127278, <<87,90>>>>, <<127280, <<65>>>>,
    <<127281, <<66>>>>, <<127282, <<67>>>>, <<127283, <<68>>>>, <<127284,
    <<69>>>>, <<127285, <<70>>>>, <<127286, <<71>>>>, <<127287, <<72>>>>,
    <<127288, <<73>>>>, <<127289, <<74>>>>, <<127290, <<75>>>>, <<127291,
    <<76>>>>, <<127292, <<77>>>>, <<127293, <<78>>>>, <<127294, <<79>>>>,
    <<127295, <<80>>>>, <<127296, <<81>>>>, <<127297, <<82>>>>, <<127298,
    <<83>>>>, <<127299, <<84>>>>, <<127300, <<85>>>>, <<127301, <<86>>>>,
    <<127302, <<87>>>>, <<127303, <<88>>>>, <<127304, <<89>>>>, <<127305,
    <<90>>>>, <<127306, <<72,86>>>>, <<127307, <<77,86>>>>, <<127308,
    <<83,68>>>>, <<127309, <<83,83>>>>, <<127310, <<80,80,86>>>>, <<127311,
    <<87,67>>>>, <<127338, <<77,67>>>>, <<127339, <<77,68>>>>, <<127340,
    <<77,82>>>>, <<127376, <<68,74>>>>, <<127488, <<12411,12363>>>>, <<127489,
    <<12467,12467>>>>, <<127490, <<12469>>>>, <<127504, <<25163>>>>, <<127505,
    <<23383>>>>, <<127506, <<21452>>>>, <<127507, <<12486,12441>>>>, <<127508,
    <<20108>>>>, <<127509, <<22810>>>>, <<127510, <<35299>>>>, <<127511,
    <<22825>>>>, <<127512, <<20132>>>>, <<127513, <<26144>>>>, <<127514,
    <<28961>>>>, <<127515, <<26009>>>>, <<127516, <<21069>>>>, <<127517,
    <<24460>>>>, <<127518, <<20877>>>>, <<127519, <<26032>>>>, <<127520,
    <<21021>>>>, <<127521, <<32066>>>>, <<127522, <<29983>>>>, <<127523,
    <<36009>>>>, <<127524, <<22768>>>>, <<127525, <<21561>>>>, <<127526,
    <<28436>>>>, <<127527, <<25237>>>>, <<127528, <<25429>>>>, <<127529,
    <<19968>>>>, <<127530, <<19977>>>>, <<127531, <<36938>>>>, <<127532,
    <<24038>>>>, <<127533, <<20013>>>>, <<127534, <<21491>>>>, <<127535,
    <<25351>>>>, <<127536, <<36208>>>>, <<127537, <<25171>>>>, <<127538,
    <<31105>>>>, <<127539, <<31354>>>>, <<127540, <<21512>>>>, <<127541,
    <<28288>>>>, <<127542, <<26377>>>>, <<127543, <<26376>>>>, <<127544,
    <<30003>>>>, <<127545, <<21106>>>>, <<127546, <<21942>>>>, <<127547,
    <<37197>>>>, <<127552, <<12308,26412,12309>>>>, <<127553,
    <<12308,19977,12309>>>>, <<127554, <<12308,20108,12309>>>>, <<127555,
    <<12308,23433,12309>>>>, <<127556, <<12308,28857,12309>>>>, <<127557,
    <<12308,25171,12309>>>>, <<127558, <<12308,30423,12309>>>>, <<127559,
    <<12308,21213,12309>>>>, <<127560, <<12308,25943,12309>>>>, <<127568,
    <<24471>>>>, <<127569, <<21487>>>>, <<130032, <<48>>>>, <<130033,
    <<49>>>>, <<130034, <<50>>>>, <<130035, <<51>>>>, <<130036, <<52>>>>,
    <<130037, <<53>>>>, <<130038, <<54>>>>, <<130039, <<55>>>>, <<130040,
    <<56>>>>, <<130041, <<57>>>>, <<194560, <<20029>>>>, <<194561,
    <<20024>>>>, <<194562, <<20033>>>>, <<194563, <<131362>>>>, <<194564,
    <<20320>>>>, <<194565, <<20398>>>>, <<194566, <<20411>>>>, <<194567,
    <<20482>>>>, <<194568, <<20602>>>>, <<194569, <<20633>>>>, <<194570,
    <<20711>>>>, <<194571, <<20687>>>>, <<194572, <<13470>>>>, <<194573,
    <<132666>>>>, <<194574, <<20813>>>>, <<194575, <<20820>>>>, <<194576,
    <<20836>>>>, <<194577, <<20855>>>>, <<194578, <<132380>>>>, <<194579,
    <<13497>>>>, <<194580, <<20839>>>>, <<194581, <<20877>>>>, <<194582,
    <<132427>>>>, <<194583, <<20887>>>>, <<194584, <<20900>>>>, <<194585,
    <<20172>>>>, <<194586, <<20908>>>>, <<194587, <<20917>>>>, <<194588,
    <<168415>>>>, <<194589, <<20981>>>>, <<194590, <<20995>>>>, <<194591,
    <<13535>>>>, <<194592, <<21051>>>>, <<194593, <<21062>>>>, <<194594,
    <<21106>>>>, <<194595, <<21111>>>>, <<194596, <<13589>>>>, <<194597,
    <<21191>>>>, <<194598, <<21193>>>>, <<194599, <<21220>>>>, <<194600,
    <<21242>>>>, <<194601, <<21253>>>>, <<194602, <<21254>>>>, <<194603,
    <<21271>>>>, <<194604, <<21321>>>>, <<194605, <<21329>>>>, <<194606,
    <<21338>>>>, <<194607, <<21363>>>>, <<194608, <<21373>>>>, <<194609,
    <<21375>>>>, <<194610, <<21375>>>>, <<194611, <<21375>>>>, <<194612,
    <<133676>>>>, <<194613, <<28784>>>>, <<194614, <<21450>>>>, <<194615,
    <<21471>>>>, <<194616, <<133987>>>>, <<194617, <<21483>>>>, <<194618,
    <<21489>>>>, <<194619, <<21510>>>>, <<194620, <<21662>>>>, <<194621,
    <<21560>>>>, <<194622, <<21576>>>>, <<194623, <<21608>>>>, <<194624,
    <<21666>>>>, <<194625, <<21750>>>>, <<194626, <<21776>>>>, <<194627,
    <<21843>>>>, <<194628, <<21859>>>>, <<194629, <<21892>>>>, <<194630,
    <<21892>>>>, <<194631, <<21913>>>>, <<194632, <<21931>>>>, <<194633,
    <<21939>>>>, <<194634, <<21954>>>>, <<194635, <<22294>>>>, <<194636,
    <<22022>>>>, <<194637, <<22295>>>>, <<194638, <<22097>>>>, <<194639,
    <<22132>>>>, <<194640, <<20999>>>>, <<194641, <<22766>>>>, <<194642,
    <<22478>>>>, <<194643, <<22516>>>>, <<194644, <<22541>>>>, <<194645,
    <<22411>>>>, <<194646, <<22578>>>>, <<194647, <<22577>>>>, <<194648,
    <<22700>>>>, <<194649, <<136420>>>>, <<194650, <<22770>>>>, <<194651,
    <<22775>>>>, <<194652, <<22790>>>>, <<194653, <<22810>>>>, <<194654,
    <<22818>>>>, <<194655, <<22882>>>>, <<194656, <<136872>>>>, <<194657,
    <<136938>>>>, <<194658, <<23020>>>>, <<194659, <<23067>>>>, <<194660,
    <<23079>>>>, <<194661, <<23000>>>>, <<194662, <<23142>>>>, <<194663,
    <<14062>>>>, <<194664, <<14076>>>>, <<194665, <<23304>>>>, <<194666,
    <<23358>>>>, <<194667, <<23358>>>>, <<194668, <<137672>>>>, <<194669,
    <<23491>>>>, <<194670, <<23512>>>>, <<194671, <<23527>>>>, <<194672,
    <<23539>>>>, <<194673, <<138008>>>>, <<194674, <<23551>>>>, <<194675,
    <<23558>>>>, <<194676, <<24403>>>>, <<194677, <<23586>>>>, <<194678,
    <<14209>>>>, <<194679, <<23648>>>>, <<194680, <<23662>>>>, <<194681,
    <<23744>>>>, <<194682, <<23693>>>>, <<194683, <<138724>>>>, <<194684,
    <<23875>>>>, <<194685, <<138726>>>>, <<194686, <<23918>>>>, <<194687,
    <<23915>>>>, <<194688, <<23932>>>>, <<194689, <<24033>>>>, <<194690,
    <<24034>>>>, <<194691, <<14383>>>>, <<194692, <<24061>>>>, <<194693,
    <<24104>>>>, <<194694, <<24125>>>>, <<194695, <<24169>>>>, <<194696,
    <<14434>>>>, <<194697, <<139651>>>>, <<194698, <<14460>>>>, <<194699,
    <<24240>>>>, <<194700, <<24243>>>>, <<194701, <<24246>>>>, <<194702,
    <<24266>>>>, <<194703, <<172946>>>>, <<194704, <<24318>>>>, <<194705,
    <<140081>>>>, <<194706, <<140081>>>>, <<194707, <<33281>>>>, <<194708,
    <<24354>>>>, <<194709, <<24354>>>>, <<194710, <<14535>>>>, <<194711,
    <<144056>>>>, <<194712, <<156122>>>>, <<194713, <<24418>>>>, <<194714,
    <<24427>>>>, <<194715, <<14563>>>>, <<194716, <<24474>>>>, <<194717,
    <<24525>>>>, <<194718, <<24535>>>>, <<194719, <<24569>>>>, <<194720,
    <<24705>>>>, <<194721, <<14650>>>>, <<194722, <<14620>>>>, <<194723,
    <<24724>>>>, <<194724, <<141012>>>>, <<194725, <<24775>>>>, <<194726,
    <<24904>>>>, <<194727, <<24908>>>>, <<194728, <<24910>>>>, <<194729,
    <<24908>>>>, <<194730, <<24954>>>>, <<194731, <<24974>>>>, <<194732,
    <<25010>>>>, <<194733, <<24996>>>>, <<194734, <<25007>>>>, <<194735,
    <<25054>>>>, <<194736, <<25074>>>>, <<194737, <<25078>>>>, <<194738,
    <<25104>>>>, <<194739, <<25115>>>>, <<194740, <<25181>>>>, <<194741,
    <<25265>>>>, <<194742, <<25300>>>>, <<194743, <<25424>>>>, <<194744,
    <<142092>>>>, <<194745, <<25405>>>>, <<194746, <<25340>>>>, <<194747,
    <<25448>>>>, <<194748, <<25475>>>>, <<194749, <<25572>>>>, <<194750,
    <<142321>>>>, <<194751, <<25634>>>>, <<194752, <<25541>>>>, <<194753,
    <<25513>>>>, <<194754, <<14894>>>>, <<194755, <<25705>>>>, <<194756,
    <<25726>>>>, <<194757, <<25757>>>>, <<194758, <<25719>>>>, <<194759,
    <<14956>>>>, <<194760, <<25935>>>>, <<194761, <<25964>>>>, <<194762,
    <<143370>>>>, <<194763, <<26083>>>>, <<194764, <<26360>>>>, <<194765,
    <<26185>>>>, <<194766, <<15129>>>>, <<194767, <<26257>>>>, <<194768,
    <<15112>>>>, <<194769, <<15076>>>>, <<194770, <<20882>>>>, <<194771,
    <<20885>>>>, <<194772, <<26368>>>>, <<194773, <<26268>>>>, <<194774,
    <<32941>>>>, <<194775, <<17369>>>>, <<194776, <<26391>>>>, <<194777,
    <<26395>>>>, <<194778, <<26401>>>>, <<194779, <<26462>>>>, <<194780,
    <<26451>>>>, <<194781, <<144323>>>>, <<194782, <<15177>>>>, <<194783,
    <<26618>>>>, <<194784, <<26501>>>>, <<194785, <<26706>>>>, <<194786,
    <<26757>>>>, <<194787, <<144493>>>>, <<194788, <<26766>>>>, <<194789,
    <<26655>>>>, <<194790, <<26900>>>>, <<194791, <<15261>>>>, <<194792,
    <<26946>>>>, <<194793, <<27043>>>>, <<194794, <<27114>>>>, <<194795,
    <<27304>>>>, <<194796, <<145059>>>>, <<194797, <<27355>>>>, <<194798,
    <<15384>>>>, <<194799, <<27425>>>>, <<194800, <<145575>>>>, <<194801,
    <<27476>>>>, <<194802, <<15438>>>>, <<194803, <<27506>>>>, <<194804,
    <<27551>>>>, <<194805, <<27578>>>>, <<194806, <<27579>>>>, <<194807,
    <<146061>>>>, <<194808, <<138507>>>>, <<194809, <<146170>>>>, <<194810,
    <<27726>>>>, <<194811, <<146620>>>>, <<194812, <<27839>>>>, <<194813,
    <<27853>>>>, <<194814, <<27751>>>>, <<194815, <<27926>>>>, <<194816,
    <<27966>>>>, <<194817, <<28023>>>>, <<194818, <<27969>>>>, <<194819,
    <<28009>>>>, <<194820, <<28024>>>>, <<194821, <<28037>>>>, <<194822,
    <<146718>>>>, <<194823, <<27956>>>>, <<194824, <<28207>>>>, <<194825,
    <<28270>>>>, <<194826, <<15667>>>>, <<194827, <<28363>>>>, <<194828,
    <<28359>>>>, <<194829, <<147153>>>>, <<194830, <<28153>>>>, <<194831,
    <<28526>>>>, <<194832, <<147294>>>>, <<194833, <<147342>>>>, <<194834,
    <<28614>>>>, <<194835, <<28729>>>>, <<194836, <<28702>>>>, <<194837,
    <<28699>>>>, <<194838, <<15766>>>>, <<194839, <<28746>>>>, <<194840,
    <<28797>>>>, <<194841, <<28791>>>>, <<194842, <<28845>>>>, <<194843,
    <<132389>>>>, <<194844, <<28997>>>>, <<194845, <<148067>>>>, <<194846,
    <<29084>>>>, <<194847, <<148395>>>>, <<194848, <<29224>>>>, <<194849,
    <<29237>>>>, <<194850, <<29264>>>>, <<194851, <<149000>>>>, <<194852,
    <<29312>>>>, <<194853, <<29333>>>>, <<194854, <<149301>>>>, <<194855,
    <<149524>>>>, <<194856, <<29562>>>>, <<194857, <<29579>>>>, <<194858,
    <<16044>>>>, <<194859, <<29605>>>>, <<194860, <<16056>>>>, <<194861,
    <<16056>>>>, <<194862, <<29767>>>>, <<194863, <<29788>>>>, <<194864,
    <<29809>>>>, <<194865, <<29829>>>>, <<194866, <<29898>>>>, <<194867,
    <<16155>>>>, <<194868, <<29988>>>>, <<194869, <<150582>>>>, <<194870,
    <<30014>>>>, <<194871, <<150674>>>>, <<194872, <<30064>>>>, <<194873,
    <<139679>>>>, <<194874, <<30224>>>>, <<194875, <<151457>>>>, <<194876,
    <<151480>>>>, <<194877, <<151620>>>>, <<194878, <<16380>>>>, <<194879,
    <<16392>>>>, <<194880, <<30452>>>>, <<194881, <<151795>>>>, <<194882,
    <<151794>>>>, <<194883, <<151833>>>>, <<194884, <<151859>>>>, <<194885,
    <<30494>>>>, <<194886, <<30495>>>>, <<194887, <<30495>>>>, <<194888,
    <<30538>>>>, <<194889, <<16441>>>>, <<194890, <<30603>>>>, <<194891,
    <<16454>>>>, <<194892, <<16534>>>>, <<194893, <<152605>>>>, <<194894,
    <<30798>>>>, <<194895, <<30860>>>>, <<194896, <<30924>>>>, <<194897,
    <<16611>>>>, <<194898, <<153126>>>>, <<194899, <<31062>>>>, <<194900,
    <<153242>>>>, <<194901, <<153285>>>>, <<194902, <<31119>>>>, <<194903,
    <<31211>>>>, <<194904, <<16687>>>>, <<194905, <<31296>>>>, <<194906,
    <<31306>>>>, <<194907, <<31311>>>>, <<194908, <<153980>>>>, <<194909,
    <<154279>>>>, <<194910, <<154279>>>>, <<194911, <<31470>>>>, <<194912,
    <<16898>>>>, <<194913, <<154539>>>>, <<194914, <<31686>>>>, <<194915,
    <<31689>>>>, <<194916, <<16935>>>>, <<194917, <<154752>>>>, <<194918,
    <<31954>>>>, <<194919, <<17056>>>>, <<194920, <<31976>>>>, <<194921,
    <<31971>>>>, <<194922, <<32000>>>>, <<194923, <<155526>>>>, <<194924,
    <<32099>>>>, <<194925, <<17153>>>>, <<194926, <<32199>>>>, <<194927,
    <<32258>>>>, <<194928, <<32325>>>>, <<194929, <<17204>>>>, <<194930,
    <<156200>>>>, <<194931, <<156231>>>>, <<194932, <<17241>>>>, <<194933,
    <<156377>>>>, <<194934, <<32634>>>>, <<194935, <<156478>>>>, <<194936,
    <<32661>>>>, <<194937, <<32762>>>>, <<194938, <<32773>>>>, <<194939,
    <<156890>>>>, <<194940, <<156963>>>>, <<194941, <<32864>>>>, <<194942,
    <<157096>>>>, <<194943, <<32880>>>>, <<194944, <<144223>>>>, <<194945,
    <<17365>>>>, <<194946, <<32946>>>>, <<194947, <<33027>>>>, <<194948,
    <<17419>>>>, <<194949, <<33086>>>>, <<194950, <<23221>>>>, <<194951,
    <<157607>>>>, <<194952, <<157621>>>>, <<194953, <<144275>>>>, <<194954,
    <<144284>>>>, <<194955, <<33281>>>>, <<194956, <<33284>>>>, <<194957,
    <<36766>>>>, <<194958, <<17515>>>>, <<194959, <<33425>>>>, <<194960,
    <<33419>>>>, <<194961, <<33437>>>>, <<194962, <<21171>>>>, <<194963,
    <<33457>>>>, <<194964, <<33459>>>>, <<194965, <<33469>>>>, <<194966,
    <<33510>>>>, <<194967, <<158524>>>>, <<194968, <<33509>>>>, <<194969,
    <<33565>>>>, <<194970, <<33635>>>>, <<194971, <<33709>>>>, <<194972,
    <<33571>>>>, <<194973, <<33725>>>>, <<194974, <<33767>>>>, <<194975,
    <<33879>>>>, <<194976, <<33619>>>>, <<194977, <<33738>>>>, <<194978,
    <<33740>>>>, <<194979, <<33756>>>>, <<194980, <<158774>>>>, <<194981,
    <<159083>>>>, <<194982, <<158933>>>>, <<194983, <<17707>>>>, <<194984,
    <<34033>>>>, <<194985, <<34035>>>>, <<194986, <<34070>>>>, <<194987,
    <<160714>>>>, <<194988, <<34148>>>>, <<194989, <<159532>>>>, <<194990,
    <<17757>>>>, <<194991, <<17761>>>>, <<194992, <<159665>>>>, <<194993,
    <<159954>>>>, <<194994, <<17771>>>>, <<194995, <<34384>>>>, <<194996,
    <<34396>>>>, <<194997, <<34407>>>>, <<194998, <<34409>>>>, <<194999,
    <<34473>>>>, <<195000, <<34440>>>>, <<195001, <<34574>>>>, <<195002,
    <<34530>>>>, <<195003, <<34681>>>>, <<195004, <<34600>>>>, <<195005,
    <<34667>>>>, <<195006, <<34694>>>>, <<195007, <<17879>>>>, <<195008,
    <<34785>>>>, <<195009, <<34817>>>>, <<195010, <<17913>>>>, <<195011,
    <<34912>>>>, <<195012, <<34915>>>>, <<195013, <<161383>>>>, <<195014,
    <<35031>>>>, <<195015, <<35038>>>>, <<195016, <<17973>>>>, <<195017,
    <<35066>>>>, <<195018, <<13499>>>>, <<195019, <<161966>>>>, <<195020,
    <<162150>>>>, <<195021, <<18110>>>>, <<195022, <<18119>>>>, <<195023,
    <<35488>>>>, <<195024, <<35565>>>>, <<195025, <<35722>>>>, <<195026,
    <<35925>>>>, <<195027, <<162984>>>>, <<195028, <<36011>>>>, <<195029,
    <<36033>>>>, <<195030, <<36123>>>>, <<195031, <<36215>>>>, <<195032,
    <<163631>>>>, <<195033, <<133124>>>>, <<195034, <<36299>>>>, <<195035,
    <<36284>>>>, <<195036, <<36336>>>>, <<195037, <<133342>>>>, <<195038,
    <<36564>>>>, <<195039, <<36664>>>>, <<195040, <<165330>>>>, <<195041,
    <<165357>>>>, <<195042, <<37012>>>>, <<195043, <<37105>>>>, <<195044,
    <<37137>>>>, <<195045, <<165678>>>>, <<195046, <<37147>>>>, <<195047,
    <<37432>>>>, <<195048, <<37591>>>>, <<195049, <<37592>>>>, <<195050,
    <<37500>>>>, <<195051, <<37881>>>>, <<195052, <<37909>>>>, <<195053,
    <<166906>>>>, <<195054, <<38283>>>>, <<195055, <<18837>>>>, <<195056,
    <<38327>>>>, <<195057, <<167287>>>>, <<195058, <<18918>>>>, <<195059,
    <<38595>>>>, <<195060, <<23986>>>>, <<195061, <<38691>>>>, <<195062,
    <<168261>>>>, <<195063, <<168474>>>>, <<195064, <<19054>>>>, <<195065,
    <<19062>>>>, <<195066, <<38880>>>>, <<195067, <<168970>>>>, <<195068,
    <<19122>>>>, <<195069, <<169110>>>>, <<195070, <<38923>>>>, <<195071,
    <<38923>>>>, <<195072, <<38953>>>>, <<195073, <<169398>>>>, <<195074,
    <<39138>>>>, <<195075, <<19251>>>>, <<195076, <<39209>>>>, <<195077,
    <<39335>>>>, <<195078, <<39362>>>>, <<195079, <<39422>>>>, <<195080,
    <<19406>>>>, <<195081, <<170800>>>>, <<195082, <<39698>>>>, <<195083,
    <<40000>>>>, <<195084, <<40189>>>>, <<195085, <<19662>>>>, <<195086,
    <<19693>>>>, <<195087, <<40295>>>>, <<195088, <<172238>>>>, <<195089,
    <<19704>>>>, <<195090, <<172293>>>>, <<195091, <<172558>>>>, <<195092,
    <<172689>>>>, <<195093, <<40635>>>>, <<195094, <<19798>>>>, <<195095,
    <<40697>>>>, <<195096, <<40702>>>>, <<195097, <<40709>>>>, <<195098,
    <<40719>>>>, <<195099, <<40726>>>>, <<195100, <<40763>>>>, <<195101,
    <<173568>>>> }

\* the Hangul syllables and the first leading consonant, vowel and trailing
\* consonant (minus one) of their decompositions
HangulFirst == 44032
HangulLast == 55203
HangulLeadBase == 4352
HangulVowelBase == 4449
HangulTrailBase == 4519
HangulVowels == 21
HangulTrails == 28

\* the decomposition of a Hangul syllable
HangulDecomposition(cp) ==
    LET s == cp - HangulFirst
        lv == <<HangulLeadBase + s \div (HangulVowels * HangulTrails),
                HangulVowelBase + (s % (HangulVowels * HangulTrails)) \div HangulTrails>>
    IN  IF s % HangulTrails = 0 THEN lv
        ELSE Append(lv, HangulTrailBase + (s % HangulTrails))

\* the full compatibility decomposition of one code point
Decompose(cp) ==
    IF cp < 128 THEN <<cp>>
    ELSE IF cp \in HangulFirst..HangulLast THEN HangulDecomposition(cp)
    ELSE Found({d \in Decomposition : d[1] = cp}, <<cp>>)

\* unicodedata.combining: the ranges of code points with a canonical
\* combining class other than 0, each with its class
CombiningClasses == {
    <<768,788,230>>, <<789,789,232>>, <<790,793,220>>, <<794,794,232>>,
    <<795,795,216>>, <<796,800,220>>, <<801,802,202>>, <<803,806,220>>,
    <<807,808,202>>, <<809,819,220>>, <<820,824,1>>, <<825,828,220>>,
    <<829,836,230>>, <<837,837,240>>, <<838,838,230>>, <<839,841,220>>,
    <<842,844,230>>, <<845,846,220>>, <<848,850,230>>, <<851,854,220>>,
    <<855,855,230>>, <<856,856,232>>, <<857,858,220>>, <<859,859,230>>,
    <<860,860,233>>, <<861,862,234>>, <<863,863,233>>, <<864,865,234>>,
    <<866,866,233>>, <<867,879,230>>, <<1155,1159,230>>, <<1425,1425,220>>,
    <<1426,1429,230>>, <<1430,1430,220>>, <<1431,1433,230>>,
    <<1434,1434,222>>, <<1435,1435,220>>, <<1436,1441,230>>,
    <<1442,1447,220>>, <<1448,1449,230>>, <<1450,1450,220>>,
    <<1451,1452,230>>, <<1453,1453,222>>, <<1454,1454,228>>,
    <<1455,1455,230>>, <<1456,1456,10>>, <<1457,1457,11>>, <<1458,1458,12>>,
    <<1459,1459,13>>, <<1460,1460,14>>, <<1461,1461,15>>, <<1462,1462,16>>,
    <<1463,1463,17>>, <<1464,1464,18>>, <<1465,1466,19>>, <<1467,1467,20>>,
    <<1468,1468,21>>, <<1469,1469,22>>, <<1471,1471,23>>, <<1473,1473,24>>,
    <<1474,1474,25>>, <<1476,1476,230>>, <<1477,1477,220>>, <<1479,1479,18>>,
    <<1552,1559,230>>, <<1560,1560,30>>, <<1561,1561,31>>, <<1562,1562,32>>,
    <<1611,1611,27>>, <<1612,1612,28>>, <<1613,1613,29>>, <<1614,1614,30>>,
    <<1615,1615,31>>, <<1616,1616,32>>, <<1617,1617,33>>, <<1618,1618,34>>,
    <<1619,1620,230>>, <<1621,1622,220>>, <<1623,1627,230>>,
    <<1628,1628,220>>, <<1629,1630,230>>, <<1631,1631,220>>, <<1648,1648,35>>,
    <<1750,1756,230>>, <<1759,1762,230>>, <<1763,1763,220>>,
    <<1764,1764,230>>, <<1767,1768,230>>, <<1770,1770,220>>,
    <<1771,1772,230>>, <<1773,1773,220>>, <<1809,1809,36>>, <<1840,1840,230>>,
    <<1841,1841,220>>, <<1842,1843,230>>, <<1844,1844,220>>,
    <<1845,1846,230>>, <<1847,1849,220>>, <<1850,1850,230>>,
    <<1851,1852,220>>, <<1853,1853,230>>, <<1854,1854,220>>,
    <<1855,1857,230>>, <<1858,1858,220>>, <<1859,1859,230>>,
    <<1860,1860,220>>, <<1861,1861,230>>, <<1862,1862,220>>,
    <<1863,1863,230>>, <<1864,1864,220>>, <<1865,1866,230>>,
    <<2027,2033,230>>, <<2034,2034,220>>, <<2035,2035,230>>,
    <<2045,2045,220>>, <<2070,2073,230>>, <<2075,2083,230>>,
    <<2085,2087,230>>, <<2089,2093,230>>, <<2137,2139,220>>,
    <<2200,2200,230>>, <<2201,2203,220>>, <<2204,2207,230>>,
    <<2250,2254,230>>, <<2255,2259,220>>, <<2260,2273,230>>,
    <<2275,2275,220>>, <<2276,2277,230>>, <<2278,2278,220>>,
    <<2279,2280,230>>, <<2281,2281,220>>, <<2282,2284,230>>,
    <<2285,2287,220>>, <<2288,2288,27>>, <<2289,2289,28>>, <<2290,2290,29>>,
    <<2291,2293,230>>, <<2294,2294,220>>, <<2295,2296,230>>,
    <<2297,2298,220>>, <<2299,2303,230>>, <<2364,2364,7>>, <<2381,2381,9>>,
    <<2385,2385,230>>, <<2386,2386,220>>, <<2387,2388,230>>, <<2492,2492,7>>,
    <<2509,2509,9>>, <<2558,2558,230>>, <<2620,2620,7>>, <<2637,2637,9>>,
    <<2748,2748,7>>, <<2765,2765,9>>, <<2876,2876,7>>, <<2893,2893,9>>,
    <<3021,3021,9>>, <<3132,3132,7>>, <<3149,3149,9>>, <<3157,3157,84>>,
    <<3158,3158,91>>, <<3260,3260,7>>, <<3277,3277,9>>, <<3387,3388,9>>,
    <<3405,3405,9>>, <<3530,3530,9>>, <<3640,3641,103>>, <<3642,3642,9>>,
    <<3656,3659,107>>, <<3768,3769,118>>, <<3770,3770,9>>, <<3784,3787,122>>,
    <<3864,3865,220>>, <<3893,3893,220>>, <<3895,3895,220>>,
    <<3897,3897,216>>, <<3953,3953,129>>, <<3954,3954,130>>,
    <<3956,3956,132>>, <<3962,3965,130>>, <<3968,3968,130>>,
    <<3970,3971,230>>, <<3972,3972,9>>, <<3974,3975,230>>, <<4038,4038,220>>,
    <<4151,4151,7>>, <<4153,4154,9>>, <<4237,4237,220>>, <<4957,4959,230>>,
    <<5908,5909,9>>, <<5940,5940,9>>, <<6098,6098,9>>, <<6109,6109,230>>,
    <<6313,6313,228>>, <<6457,6457,222>>, <<6458,6458,230>>,
    <<6459,6459,220>>, <<6679,6679,230>>, <<6680,6680,220>>, <<6752,6752,9>>,
    <<6773,6780,230>>, <<6783,6783,220>>, <<6832,6836,230>>,
    <<6837,6842,220>>, <<6843,6844,230>>, <<6845,6845,220>>,
    <<6847,6848,220>>, <<6849,6850,230>>, <<6851,6852,220>>,
    <<6853,6857,230>>, <<6858,6858,220>>, <<6859,6862,230>>, <<6964,6964,7>>,
    <<6980,6980,9>>, <<7019,7019,230>>, <<7020,7020,220>>, <<7021,7027,230>>,
    <<7082,7083,9>>, <<7142,7142,7>>, <<7154,7155,9>>, <<7223,7223,7>>,
    <<7376,7378,230>>, <<7380,7380,1>>, <<7381,7385,220>>, <<7386,7387,230>>,
    <<7388,7391,220>>, <<7392,7392,230>>, <<7394,7400,1>>, <<7405,7405,220>>,
    <<7412,7412,230>>, <<7416,7417,230>>, <<7616,7617,230>>,
    <<7618,7618,220>>, <<7619,7625,230>>, <<7626,7626,220>>,
    <<7627,7628,230>>, <<7629,7629,234>>, <<7630,7630,214>>,
    <<7631,7631,220>>, <<7632,7632,202>>, <<7633,7669,230>>,
    <<7670,7670,232>>, <<7671,7672,228>>, <<7673,7673,220>>,
    <<7674,7674,218>>, <<7675,7675,230>>, <<7676,7676,233>>,
    <<7677,7677,220>>, <<7678,7678,230>>, <<7679,7679,220>>,
    <<8400,8401,230>>, <<8402,8403,1>>, <<8404,8407,230>>, <<8408,8410,1>>,
    <<8411,8412,230>>, <<8417,8417,230>>, <<8421,8422,1>>, <<8423,8423,230>>,
    <<8424,8424,220>>, <<8425,8425,230>>, <<8426,8427,1>>, <<8428,8431,220>>,
    <<8432,8432,230>>, <<11503,11505,230>>, <<11647,11647,9>>,
    <<11744,11775,230>>, <<12330,12330,218>>, <<12331,12331,228>>,
    <<12332,12332,232>>, <<12333,12333,222>>, <<12334,12335,224>>,
    <<12441,12442,8>>, <<42607,42607,230>>, <<42612,42621,230>>,
    <<42654,42655,230>>, <<42736,42737,230>>, <<43014,43014,9>>,
    <<43052,43052,9>>, <<43204,43204,9>>, <<43232,43249,230>>,
    <<43307,43309,220>>, <<43347,43347,9>>, <<43443,43443,7>>,
    <<43456,43456,9>>, <<43696,43696,230>>, <<43698,43699,230>>,
    <<43700,43700,220>>, <<43703,43704,230>>, <<43710,43711,230>>,
    <<43713,43713,230>>, <<43766,43766,9>>, <<44013,44013,9>>,
    <<64286,64286,26>>, <<65056,65062,230>>, <<65063,65069,220>>,
    <<65070,65071,230>>, <<66045,66045,220>>, <<66272,66272,220>>,
    <<66422,66426,230>>, <<68109,68109,220>>, <<68111,68111,230>>,
    <<68152,68152,230>>, <<68153,68153,1>>, <<68154,68154,220>>,
    <<68159,68159,9>>, <<68325,68325,230>>, <<68326,68326,220>>,
    <<68900,68903,230>>, <<69291,69292,230>>, <<69446,69447,220>>,
    <<69448,69450,230>>, <<69451,69451,220>>, <<69452,69452,230>>,
    <<69453,69456,220>>, <<69506,69506,230>>, <<69507,69507,220>>,
    <<69508,69508,230>>, <<69509,69509,220>>, <<69702,69702,9>>,
    <<69744,69744,9>>, <<69759,69759,9>>, <<69817,69817,9>>,
    <<69818,69818,7>>, <<69888,69890,230>>, <<69939,69940,9>>,
    <<70003,70003,7>>, <<70080,70080,9>>, <<70090,70090,7>>,
    <<70197,70197,9>>, <<70198,70198,7>>, <<70377,70377,7>>,
    <<70378,70378,9>>, <<70459,70460,7>>, <<70477,70477,9>>,
    <<70502,70508,230>>, <<70512,70516,230>>, <<70722,70722,9>>,
    <<70726,70726,7>>, <<70750,70750,230>>, <<70850,70850,9>>,
    <<70851,70851,7>>, <<71103,71103,9>>, <<71104,71104,7>>,
    <<71231,71231,9>>, <<71350,71350,9>>, <<71351,71351,7>>,
    <<71467,71467,9>>, <<71737,71737,9>>, <<71738,71738,7>>,
    <<71997,71998,9>>, <<72003,72003,7>>, <<72160,72160,9>>,
    <<72244,72244,9>>, <<72263,72263,9>>, <<72345,72345,9>>,
    <<72767,72767,9>>, <<73026,73026,7>>, <<73028,73029,9>>,
    <<73111,73111,9>>, <<92912,92916,1>>, <<92976,92982,230>>,
    <<94192,94193,6>>, <<113822,113822,1>>, <<119141,119142,216>>,
    <<119143,119145,1>>, <<119149,119149,226>>, <<119150,119154,216>>,
    <<119163,119170,220>>, <<119173,119177,230>>, <<119178,119179,220>>,
    <<119210,119213,230>>, <<119362,119364,230>>, <<122880,122886,230>>,
    <<122888,122904,230>>, <<122907,122913,230>>, <<122915,122916,230>>,
    <<122918,122922,230>>, <<123184,123190,230>>, <<123566,123566,230>>,
    <<123628,123631,230>>, <<125136,125142,220>>, <<125252,125257,230>>,
    <<125258,125258,7>> }

\* unicodedata.combining(chr(cp))
CombiningClass(cp) ==
    Found({<<r[1], r[3]>> : r \in {q \in CombiningClasses : cp \in q[1]..q[2]}}, 0)

\* canonical ordering: within a run of code points of a combining class
\* other than 0, those of a lower class come first, and those of one class
\* stay in their order
CanonicalOrder(text) ==
    LET ccc == [i \in DOMAIN text |-> CombiningClass(text[i])]
        Marks(i, j) == \A k \in i..j : ccc[k] # 0
        Before(j, i) == IF j < i THEN ~(Marks(j, i) /\ ccc[i] < ccc[j])
                        ELSE Marks(i, j) /\ ccc[j] < ccc[i]
        Rank(i) == 1 + Cardinality({j \in DOMAIN text \ {i} : Before(j, i)})
    IN  [p \in DOMAIN text |-> text[CHOOSE i \in DOMAIN text : Rank(i) = p]]

\* unicodedata.normalize("NFKD", text): the decompositions of the code
\* points, in canonical order
Normalize(text) ==
    IF \A i \in DOMAIN text : text[i] < 128 THEN text
    ELSE CanonicalOrder(Concat([i \in DOMAIN text |-> Decompose(text[i])],
                               1, Len(text)))

\* str.lower() of one character other than ASCII, where it is not the
\* character itself
LowerCaseOf == {
    <<192, <<224>>>>, <<193, <<225>>>>, <<194, <<226>>>>, <<195, <<227>>>>,
    <<196, <<228>>>>, <<197, <<229>>>>, <<198, <<230>>>>, <<199, <<231>>>>,
    <<200, <<232>>>>, <<201, <<233>>>>, <<202, <<234>>>>, <<203, <<235>>>>,
    <<204, <<236>>>>, <<205, <<237>>>>, <<206, <<238>>>>, <<207, <<239>>>>,
    <<208, <<240>>>>, <<209, <<241>>>>, <<210, <<242>>>>, <<211, <<243>>>>,
    <<212, <<244>>>>, <<213, <<245>>>>, <<214, <<246>>>>, <<216, <<248>>>>,
    <<217, <<249>>>>, <<218, <<250>>>>, <<219, <<251>>>>, <<220, <<252>>>>,
    <<221, <<253>>>>, <<222, <<254>>>>, <<256, <<257>>>>, <<258, <<259>>>>,
    <<260, <<261>>>>, <<262, <<263>>>>, <<264, <<265>>>>, <<266, <<267>>>>,
    <<268, <<269>>>>, <<270, <<271>>>>, <<272, <<273>>>>, <<274, <<275>>>>,
    <<276, <<277>>>>, <<278, <<279>>>>, <<280, <<281>>>>, <<282, <<283>>>>,
    <<284, <<285>>>>, <<286, <<287>>>>, <<288, <<289>>>>, <<290, <<291>>>>,
    <<292, <<293>>>>, <<294, <<295>>>>, <<296, <<297>>>>, <<298, <<299>>>>,
    <<300, <<301>>>>, <<302, <<303>>>>, <<304, <<105,775>>>>, <<306,
    <<307>>>>, <<308, <<309>>>>, <<310, <<311>>>>, <<313, <<314>>>>, <<315,
    <<316>>>>, <<317, <<318>>>>, <<319, <<320>>>>, <<321, <<322>>>>, <<323,
    <<324>>>>, <<325, <<326>>>>, <<327, <<328>>>>, <<330, <<331>>>>, <<332,
    <<333>>>>, <<334, <<335>>>>, <<336, <<337>>>>, <<338, <<339>>>>, <<340,
    <<341>>>>, <<342, <<343>>>>, <<344, <<345>>>>, <<346, <<347>>>>, <<348,
    <<349>>>>, <<350, <<351>>>>, <<352, <<353>>>>, <<354, <<355>>>>, <<356,
    <<357>>>>, <<358, <<359>>>>, <<360, <<361>>>>, <<362, <<363>>>>, <<364,
    <<365>>>>, <<366, <<367>>>>, <<368, <<369>>>>, <<370, <<371>>>>, <<372,
    <<373>>>>, <<374, <<375>>>>, <<376, <<255>>>>, <<377, <<378>>>>, <<379,
    <<380>>>>, <<381, <<382>>>>, <<385, <<595>>>>, <<386, <<387>>>>, <<388,
    <<389>>>>, <<390, <<596>>>>, <<391, <<392>>>>, <<393, <<598>>>>, <<394,
    <<599>>>>, <<395, <<396>>>>, <<398, <<477>>>>, <<399, <<601>>>>, <<400,
    <<603>>>>, <<401, <<402>>>>, <<403, <<608>>>>, <<404, <<611>>>>, <<406,
    <<617>>>>, <<407, <<616>>>>, <<408, <<409>>>>, <<412, <<623>>>>, <<413,
    <<626>>>>, <<415, <<629>>>>, <<416, <<417>>>>, <<418, <<419>>>>, <<420,
    <<421>>>>, <<422, <<640>>>>, <<423, <<424>>>>, <<425, <<643>>>>, <<428,
    <<429>>>>, <<430, <<648>>>>, <<431, <<432>>>>, <<433, <<650>>>>, <<434,
    <<651>>>>, <<435, <<436>>>>, <<437, <<438>>>>, <<439, <<658>>>>, <<440,
    <<441>>>>, <<444, <<445>>>>, <<452, <<454>>>>, <<453, <<454>>>>, <<455,
    <<457>>>>, <<456, <<457>>>>, <<458, <<460>>>>, <<459, <<460>>>>, <<461,
    <<462>>>>, <<463, <<464>>>>, <<465, <<466>>>>, <<467, <<468>>>>, <<469,
    <<470>>>>, <<471, <<472>>>>, <<473, <<474>>>>, <<475, <<476>>>>, <<478,
    <<479>>>>, <<480, <<481>>>>, <<482, <<483>>>>, <<484, <<485>>>>, <<486,
    <<487>>>>, <<488, <<489>>>>, <<490, <<491>>>>, <<492, <<493>>>>, <<494,
    <<495>>>>, <<497, <<499>>>>, <<498, <<499>>>>, <<500, <<501>>>>, <<502,
    <<405>>>>, <<503, <<447>>>>, <<504, <<505>>>>, <<506, <<507>>>>, <<508,
    <<509>>>>, <<510, <<511>>>>, <<512, <<513>>>>, <<514, <<515>>>>, <<516,
    <<517>>>>, <<518, <<519>>>>, <<520, <<521>>>>, <<522, <<523>>>>, <<524,
    <<525>>>>, <<526, <<527>>>>, <<528, <<529>>>>, <<530, <<531>>>>, <<532,
    <<533>>>>, <<534, <<535>>>>, <<536, <<537>>>>, <<538, <<539>>>>, <<540,
    <<541>>>>, <<542, <<543>>>>, <<544, <<414>>>>, <<546, <<547>>>>, <<548,
    <<549>>>>, <<550, <<551>>>>, <<552, <<553>>>>, <<554, <<555>>>>, <<556,
    <<557>>>>, <<558, <<559>>>>, <<560, <<561>>>>, <<562, <<563>>>>, <<570,
    <<11365>>>>, <<571, <<572>>>>, <<573, <<410>>>>, <<574, <<11366>>>>,
    <<577, <<578>>>>, <<579, <<384>>>>, <<580, <<649>>>>, <<581, <<652>>>>,
    <<582, <<583>>>>, <<584, <<585>>>>, <<586, <<587>>>>, <<588, <<589>>>>,
    <<590, <<591>>>>, <<880, <<881>>>>, <<882, <<883>>>>, <<886, <<887>>>>,
    <<895, <<1011>>>>, <<902, <<940>>>>, <<904, <<941>>>>, <<905, <<942>>>>,
    <<906, <<943>>>>, <<908, <<972>>>>, <<910, <<973>>>>, <<911, <<974>>>>,
    <<913, <<945>>>>, <<914, <<946>>>>, <<915, <<947>>>>, <<916, <<948>>>>,
    <<917, <<949>>>>, <<918, <<950>>>>, <<919, <<951>>>>, <<920, <<952>>>>,
    <<921, <<953>>>>, <<922, <<954>>>>, <<923, <<955>>>>, <<924, <<956>>>>,
    <<925, <<957>>>>, <<926, <<958>>>>, <<927, <<959>>>>, <<928, <<960>>>>,
    <<929, <<961>>>>, <<931, <<963>>>>, <<932, <<964>>>>, <<933, <<965>>>>,
    <<934, <<966>>>>, <<935, <<967>>>>, <<936, <<968>>>>, <<937, <<969>>>>,
    <<938, <<970>>>>, <<939, <<971>>>>, <<975, <<983>>>>, <<984, <<985>>>>,
    <<986, <<987>>>>, <<988, <<989>>>>, <<990, <<991>>>>, <<992, <<993>>>>,
    <<994, <<995>>>>, <<996, <<997>>>>, <<998, <<999>>>>, <<1000, <<1001>>>>,
    <<1002, <<1003>>>>, <<1004, <<1005>>>>, <<1006, <<1007>>>>, <<1012,
    <<952>>>>, <<1015, <<1016>>>>, <<1017, <<1010>>>>, <<1018, <<1019>>>>,
    <<1021, <<891>>>>, <<1022, <<892>>>>, <<1023, <<893>>>>, <<1024,
    <<1104>>>>, <<1025, <<1105>>>>, <<1026, <<1106>>>>, <<1027, <<1107>>>>,
    <<1028, <<1108>>>>, <<1029, <<1109>>>>, <<1030, <<1110>>>>, <<1031,
    <<1111>>>>, <<1032, <<1112>>>>, <<1033, <<1113>>>>, <<1034, <<1114>>>>,
    <<1035, <<1115>>>>, <<1036, <<1116>>>>, <<1037, <<1117>>>>, <<1038,
    <<1118>>>>, <<1039, <<1119>>>>, <<1040, <<1072>>>>, <<1041, <<1073>>>>,
    <<1042, <<1074>>>>, <<1043, <<1075>>>>, <<1044, <<1076>>>>, <<1045,
    <<1077>>>>, <<1046, <<1078>>>>, <<1047, <<1079>>>>, <<1048, <<1080>>>>,
    <<1049, <<1081>>>>, <<1050, <<1082>>>>, <<1051, <<1083>>>>, <<1052,
    <<1084>>>>, <<1053, <<1085>>>>, <<1054, <<1086>>>>, <<1055, <<1087>>>>,
    <<1056, <<1088>>>>, <<1057, <<1089>>>>, <<1058, <<1090>>>>, <<1059,
    <<1091>>>>, <<1060, <<1092>>>>, <<1061, <<1093>>>>, <<1062, <<1094>>>>,
    <<1063, <<1095>>>>, <<1064, <<1096>>>>, <<1065, <<1097>>>>, <<1066,
    <<1098>>>>, <<1067, <<1099>>>>, <<1068, <<1100>>>>, <<1069, <<1101>>>>,
    <<1070, <<1102>>>>, <<1071, <<1103>>>>, <<1120, <<1121>>>>, <<1122,
    <<1123>>>>, <<1124, <<1125>>>>, <<1126, <<1127>>>>, <<1128, <<1129>>>>,
    <<1130, <<1131>>>>, <<1132, <<1133>>>>, <<1134, <<1135>>>>, <<1136,
    <<1137>>>>, <<1138, <<1139>>>>, <<1140, <<1141>>>>, <<1142, <<1143>>>>,
    <<1144, <<1145>>>>, <<1146, <<1147>>>>, <<1148, <<1149>>>>, <<1150,
    <<1151>>>>, <<1152, <<1153>>>>, <<1162, <<1163>>>>, <<1164, <<1165>>>>,
    <<1166, <<1167>>>>, <<1168, <<1169>>>>, <<1170, <<1171>>>>, <<1172,
    <<1173>>>>, <<1174, <<1175>>>>, <<1176, <<1177>>>>, <<1178, <<1179>>>>,
    <<1180, <<1181>>>>, <<1182, <<1183>>>>, <<1184, <<1185>>>>, <<1186,
    <<1187>>>>, <<1188, <<1189>>>>, <<1190, <<1191>>>>, <<1192, <<1193>>>>,
    <<1194, <<1195>>>>, <<1196, <<1197>>>>, <<1198, <<1199>>>>, <<1200,
    <<1201>>>>, <<1202, <<1203>>>>, <<1204, <<1205>>>>, <<1206, <<1207>>>>,
    <<1208, <<1209>>>>, <<1210, <<1211>>>>, <<1212, <<1213>>>>, <<1214,
    <<1215>>>>, <<1216, <<1231>>>>, <<1217, <<1218>>>>, <<1219, <<1220>>>>,
    <<1221, <<1222>>>>, <<1223, <<1224>>>>, <<1225, <<1226>>>>, <<1227,
    <<1228>>>>, <<1229, <<1230>>>>, <<1232, <<1233>>>>, <<1234, <<1235>>>>,
    <<1236, <<1237>>>>, <<1238, <<1239>>>>, <<1240, <<1241>>>>, <<1242,
    <<1243>>>>, <<1244, <<1245>>>>, <<1246, <<1247>>>>, <<1248, <<1249>>>>,
    <<1250, <<1251>>>>, <<1252, <<1253>>>>, <<1254, <<1255>>>>, <<1256,
    <<1257>>>>, <<1258, <<1259>>>>, <<1260, <<1261>>>>, <<1262, <<1263>>>>,
    <<1264, <<1265>>>>, <<1266, <<1267>>>>, <<1268, <<1269>>>>, <<1270,
    <<1271>>>>, <<1272, <<1273>>>>, <<1274, <<1275>>>>, <<1276, <<1277>>>>,
    <<1278, <<1279>>>>, <<1280, <<1281>>>>, <<1282, <<1283>>>>, <<1284,
    <<1285>>>>, <<1286, <<1287>>>>, <<1288, <<1289>>>>, <<1290, <<1291>>>>,
    <<1292, <<1293>>>>, <<1294, <<1295>>>>, <<1296, <<1297>>>>, <<1298,
    <<1299>>>>, <<1300, <<1301>>>>, <<1302, <<1303>>>>, <<1304, <<1305>>>>,
    <<1306, <<1307>>>>, <<1308, <<1309>>>>, <<1310, <<1311>>>>, <<1312,
    <<1313>>>>, <<1314, <<1315>>>>, <<1316, <<1317>>>>, <<1318, <<1319>>>>,
    <<1320, <<1321>>>>, <<1322, <<1323>>>>, <<1324, <<1325>>>>, <<1326,
    <<1327>>>>, <<1329, <<1377>>>>, <<1330, <<1378>>>>, <<1331, <<1379>>>>,
    <<1332, <<1380>>>>, <<1333, <<1381>>>>, <<1334, <<1382>>>>, <<1335,
    <<1383>>>>, <<1336, <<1384>>>>, <<1337, <<1385>>>>, <<1338, <<1386>>>>,
    <<1339, <<1387>>>>, <<1340, <<1388>>>>, <<1341, <<1389>>>>, <<1342,
    <<1390>>>>, <<1343, <<1391>>>>, <<1344, <<1392>>>>, <<1345, <<1393>>>>,
    <<1346, <<1394>>>>, <<1347, <<1395>>>>, <<1348, <<1396>>>>, <<1349,
    <<1397>>>>, <<1350, <<1398>>>>, <<1351, <<1399>>>>, <<1352, <<1400>>>>,
    <<1353, <<1401>>>>, <<1354, <<1402>>>>, <<1355, <<1403>>>>, <<1356,
    <<1404>>>>, <<1357, <<1405>>>>, <<1358, <<1406>>>>, <<1359, <<1407>>>>,
    <<1360, <<1408>>>>, <<1361, <<1409>>>>, <<1362, <<1410>>>>, <<1363,
    <<1411>>>>, <<1364, <<1412>>>>, <<1365, <<1413>>>>, <<1366, <<1414>>>>,
    <<4256, <<11520>>>>, <<4257, <<11521>>>>, <<4258, <<11522>>>>, <<4259,
    <<11523>>>>, <<4260, <<11524>>>>, <<4261, <<11525>>>>, <<4262,
    <<11526>>>>, <<4263, <<11527>>>>, <<4264, <<11528>>>>, <<4265,
    <<11529>>>>, <<4266, <<11530>>>>, <<4267, <<11531>>>>, <<4268,
    <<11532>>>>, <<4269, <<11533>>>>, <<4270, <<11534>>>>, <<4271,
    <<11535>>>>, <<4272, <<11536>>>>, <<4273, <<11537>>>>, <<4274,
    <<11538>>>>, <<4275, <<11539>>>>, <<4276, <<11540>>>>, <<4277,
    <<11541>>>>, <<4278, <<11542>>>>, <<4279, <<11543>>>>, <<4280,
    <<11544>>>>, <<4281, <<11545>>>>, <<4282, <<11546>>>>, <<4283,
    <<11547>>>>, <<4284, <<11548>>>>, <<4285, <<11549>>>>, <<4286,
    <<11550>>>>, <<4287, <<11551>>>>, <<4288, <<11552>>>>, <<4289,
    <<11553>>>>, <<4290, <<11554>>>>, <<4291, <<11555>>>>, <<4292,
    <<11556>>>>, <<4293, <<11557>>>>, <<4295, <<11559>>>>, <<4301,
    <<11565>>>>, <<5024, <<43888>>>>, <<5025, <<43889>>>>, <<5026,
    <<43890>>>>, <<5027, <<43891>>>>, <<5028, <<43892>>>>, <<5029,
    <<43893>>>>, <<5030, <<43894>>>>, <<5031, <<43895>>>>, <<5032,
    <<43896>>>>, <<5033, <<43897>>>>, <<5034, <<43898>>>>, <<5035,
    <<43899>>>>, <<5036, <<43900>>>>, <<5037, <<43901>>>>, <<5038,
    <<43902>>>>, <<5039, <<43903>>>>, <<5040, <<43904>>>>, <<5041,
    <<43905>>>>, <<5042, <<43906>>>>, <<5043, <<43907>>>>, <<5044,
    <<43908>>>>, <<5045, <<43909>>>>, <<5046, <<43910>>>>, <<5047,
    <<43911>>>>, <<5048, <<43912>>>>, <<5049, <<43913>>>>, <<5050,
    <<43914>>>>, <<5051, <<43915>>>>, <<5052, <<43916>>>>, <<5053,
    <<43917>>>>, <<5054, <<43918>>>>, <<5055, <<43919>>>>, <<5056,
    <<43920>>>>, <<5057, <<43921>>>>, <<5058, <<43922>>>>, <<5059,
    <<43923>>>>, <<5060, <<43924>>>>, <<5061, <<43925>>>>, <<5062,
    <<43926>>>>, <<5063, <<43927>>>>, <<5064, <<43928>>>>, <<5065,
    <<43929>>>>, <<5066, <<43930>>>>, <<5067, <<43931>>>>, <<5068,
    <<43932>>>>, <<5069, <<43933>>>>, <<5070, <<43934>>>>, <<5071,
    <<43935>>>>, <<5072, <<43936>>>>, <<5073, <<43937>>>>, <<5074,
    <<43938>>>>, <<5075, <<43939>>>>, <<5076, <<43940>>>>, <<5077,
    <<43941>>>>, <<5078, <<43942>>>>, <<5079, <<43943>>>>, <<5080,
    <<43944>>>>, <<5081, <<43945>>>>, <<5082, <<43946>>>>, <<5083,
    <<43947>>>>, <<5084, <<43948>>>>, <<5085, <<43949>>>>, <<5086,
    <<43950>>>>, <<5087, <<43951>>>>, <<5088, <<43952>>>>, <<5089,
    <<43953>>>>, <<5090, <<43954>>>>, <<5091, <<43955>>>>, <<5092,
    <<43956>>>>, <<5093, <<43957>>>>, <<5094, <<43958>>>>, <<5095,
    <<43959>>>>, <<5096, <<43960>>>>, <<5097, <<43961>>>>, <<5098,
    <<43962>>>>, <<5099, <<43963>>>>, <<5100, <<43964>>>>, <<5101,
    <<43965>>>>, <<5102, <<43966>>>>, <<5103, <<43967>>>>, <<5104, <<5112>>>>,
    <<5105, <<5113>>>>, <<5106, <<5114>>>>, <<5107, <<5115>>>>, <<5108,
    <<5116>>>>, <<5109, <<5117>>>>, <<7312, <<4304>>>>, <<7313, <<4305>>>>,
    <<7314, <<4306>>>>, <<7315, <<4307>>>>, <<7316, <<4308>>>>, <<7317,
    <<4309>>>>, <<7318, <<4310>>>>, <<7319, <<4311>>>>, <<7320, <<4312>>>>,
    <<7321, <<4313>>>>, <<7322, <<4314>>>>, <<7323, <<4315>>>>, <<7324,
    <<4316>>>>, <<7325, <<4317>>>>, <<7326, <<4318>>>>, <<7327, <<4319>>>>,
    <<7328, <<4320>>>>, <<7329, <<4321>>>>, <<7330, <<4322>>>>, <<7331,
    <<4323>>>>, <<7332, <<4324>>>>, <<7333, <<4325>>>>, <<7334, <<4326>>>>,
    <<7335, <<4327>>>>, <<7336, <<4328>>>>, <<7337, <<4329>>>>, <<7338,
    <<4330>>>>, <<7339, <<4331>>>>, <<7340, <<4332>>>>, <<7341, <<4333>>>>,
    <<7342, <<4334>>>>, <<7343, <<4335>>>>, <<7344, <<4336>>>>, <<7345,
    <<4337>>>>, <<7346, <<4338>>>>, <<7347, <<4339>>>>, <<7348, <<4340>>>>,
    <<7349, <<4341>>>>, <<7350, <<4342>>>>, <<7351, <<4343>>>>, <<7352,
    <<4344>>>>, <<7353, <<4345>>>>, <<7354, <<4346>>>>, <<7357, <<4349>>>>,
    <<7358, <<4350>>>>, <<7359, <<4351>>>>, <<7680, <<7681>>>>, <<7682,
    <<7683>>>>, <<7684, <<7685>>>>, <<7686, <<7687>>>>, <<7688, <<7689>>>>,
    <<7690, <<7691>>>>, <<7692, <<7693>>>>, <<7694, <<7695>>>>, <<7696,
    <<7697>>>>, <<7698, <<7699>>>>, <<7700, <<7701>>>>, <<7702, <<7703>>>>,
    <<7704, <<7705>>>>, <<7706, <<7707>>>>, <<7708, <<7709>>>>, <<7710,
    <<7711>>>>, <<7712, <<7713>>>>, <<7714, <<7715>>>>, <<7716, <<7717>>>>,
    <<7718, <<7719>>>>, <<7720, <<7721>>>>, <<7722, <<7723>>>>, <<7724,
    <<7725>>>>, <<7726, <<7727>>>>, <<7728, <<7729>>>>, <<7730, <<7731>>>>,
    <<7732, <<7733>>>>, <<7734, <<7735>>>>, <<7736, <<7737>>>>, <<7738,
    <<7739>>>>, <<7740, <<7741>>>>, <<7742, <<7743>>>>, <<7744, <<7745>>>>,
    <<7746, <<7747>>>>, <<7748, <<7749>>>>, <<7750, <<7751>>>>, <<7752,
    <<7753>>>>, <<7754, <<7755>>>>, <<7756, <<7757>>>>, <<7758, <<7759>>>>,
    <<7760, <<7761>>>>, <<7762, <<7763>>>>, <<7764, <<7765>>>>, <<7766,
    <<7767>>>>, <<7768, <<7769>>>>, <<7770, <<7771>>>>, <<7772, <<7773>>>>,
    <<7774, <<7775>>>>, <<7776, <<7777>>>>, <<7778, <<7779>>>>, <<7780,
    <<7781>>>>, <<7782, <<7783>>>>, <<7784, <<7785>>>>, <<7786, <<7787>>>>,
    <<7788, <<7789>>>>, <<7790, <<7791>>>>, <<7792, <<7793>>>>, <<7794,
    <<7795>>>>, <<7796, <<7797>>>>, <<7798, <<7799>>>>, <<7800, <<7801>>>>,
    <<7802, <<7803>>>>, <<7804, <<7805>>>>, <<7806, <<7807>>>>, <<7808,
    <<7809>>>>, <<7810, <<7811>>>>, <<7812, <<7813>>>>, <<7814, <<7815>>>>,
    <<7816, <<7817>>>>, <<7818, <<7819>>>>, <<7820, <<7821>>>>, <<7822,
    <<7823>>>>, <<7824, <<7825>>>>, <<7826, <<7827>>>>, <<7828, <<7829>>>>,
    <<7838, <<223>>>>, <<7840, <<7841>>>>, <<7842, <<7843>>>>, <<7844,
    <<7845>>>>, <<7846, <<7847>>>>, <<7848, <<7849>>>>, <<7850, <<7851>>>>,
    <<7852, <<7853>>>>, <<7854, <<7855>>>>, <<7856, <<7857>>>>, <<7858,
    <<7859>>>>, <<7860, <<7861>>>>, <<7862, <<7863>>>>, <<7864, <<7865>>>>,
    <<7866, <<7867>>>>, <<7868, <<7869>>>>, <<7870, <<7871>>>>, <<7872,
    <<7873>>>>, <<7874, <<7875>>>>, <<7876, <<7877>>>>, <<7878, <<7879>>>>,
    <<7880, <<7881>>>>, <<7882, <<7883>>>>, <<7884, <<7885>>>>, <<7886,
    <<7887>>>>, <<7888, <<7889>>>>, <<7890, <<7891>>>>, <<7892, <<7893>>>>,
    <<7894, <<7895>>>>, <<7896, <<7897>>>>, <<7898, <<7899>>>>, <<7900,
    <<7901>>>>, <<7902, <<7903>>>>, <<7904, <<7905>>>>, <<7906, <<7907>>>>,
    <<7908, <<7909>>>>, <<7910, <<7911>>>>, <<7912, <<7913>>>>, <<7914,
    <<7915>>>>, <<7916, <<7917>>>>, <<7918, <<7919>>>>, <<7920, <<7921>>>>,
    <<7922, <<7923>>>>, <<7924, <<7925>>>>, <<7926, <<7927>>>>, <<7928,
    <<7929>>>>, <<7930, <<7931>>>>, <<7932, <<7933>>>>, <<7934, <<7935>>>>,
    <<7944, <<7936>>>>, <<7945, <<7937>>>>, <<7946, <<7938>>>>, <<7947,
    <<7939>>>>, <<7948, <<7940>>>>, <<7949, <<7941>>>>, <<7950, <<7942>>>>,
    <<7951, <<7943>>>>, <<7960, <<7952>>>>, <<7961, <<7953>>>>, <<7962,
    <<7954>>>>, <<7963, <<7955>>>>, <<7964, <<7956>>>>, <<7965, <<7957>>>>,
    <<7976, <<7968>>>>, <<7977, <<7969>>>>, <<7978, <<7970>>>>, <<7979,
    <<7971>>>>, <<7980, <<7972>>>>, <<7981, <<7973>>>>, <<7982, <<7974>>>>,
    <<7983, <<7975>>>>, <<7992, <<7984>>>>, <<7993, <<7985>>>>, <<7994,
    <<7986>>>>, <<7995, <<7987>>>>, <<7996, <<7988>>>>, <<7997, <<7989>>>>,
    <<7998, <<7990>>>>, <<7999, <<7991>>>>, <<8008, <<8000>>>>, <<8009,
    <<8001>>>>, <<8010, <<8002>>>>, <<8011, <<8003>>>>, <<8012, <<8004>>>>,
    <<8013, <<8005>>>>, <<8025, <<8017>>>>, <<8027, <<8019>>>>, <<8029,
    <<8021>>>>, <<8031, <<8023>>>>, <<8040, <<8032>>>>, <<8041, <<8033>>>>,
    <<8042, <<8034>>>>, <<8043, <<8035>>>>, <<8044, <<8036>>>>, <<8045,
    <<8037>>>>, <<8046, <<8038>>>>, <<8047, <<8039>>>>, <<8072, <<8064>>>>,
    <<8073, <<8065>>>>, <<8074, <<8066>>>>, <<8075, <<8067>>>>, <<8076,
    <<8068>>>>, <<8077, <<8069>>>>, <<8078, <<8070>>>>, <<8079, <<8071>>>>,
    <<8088, <<8080>>>>, <<8089, <<8081>>>>, <<8090, <<8082>>>>, <<8091,
    <<8083>>>>, <<8092, <<8084>>>>, <<8093, <<8085>>>>, <<8094, <<8086>>>>,
    <<8095, <<8087>>>>, <<8104, <<8096>>>>, <<8105, <<8097>>>>, <<8106,
    <<8098>>>>, <<8107, <<8099>>>>, <<8108, <<8100>>>>, <<8109, <<8101>>>>,
    <<8110, <<8102>>>>, <<8111, <<8103>>>>, <<8120, <<8112>>>>, <<8121,
    <<8113>>>>, <<8122, <<8048>>>>, <<8123, <<8049>>>>, <<8124, <<8115>>>>,
    <<8136, <<8050>>>>, <<8137, <<8051>>>>, <<8138, <<8052>>>>, <<8139,
    <<8053>>>>, <<8140, <<8131>>>>, <<8152, <<8144>>>>, <<8153, <<8145>>>>,
    <<8154, <<8054>>>>, <<8155, <<8055>>>>, <<8168, <<8160>>>>, <<8169,
    <<8161>>>>, <<8170, <<8058>>>>, <<8171, <<8059>>>>, <<8172, <<8165>>>>,
    <<8184, <<8056>>>>, <<8185, <<8057>>>>, <<8186, <<8060>>>>, <<8187,
    <<8061>>>>, <<8188, <<8179>>>>, <<8486, <<969>>>>, <<8490, <<107>>>>,
    <<8491, <<229>>>>, <<8498, <<8526>>>>, <<8544, <<8560>>>>, <<8545,
    <<8561>>>>, <<8546, <<8562>>>>, <<8547, <<8563>>>>, <<8548, <<8564>>>>,
    <<8549, <<8565>>>>, <<8550, <<8566>>>>, <<8551, <<8567>>>>, <<8552,
    <<8568>>>>, <<8553, <<8569>>>>, <<8554, <<8570>>>>, <<8555, <<8571>>>>,
    <<8556, <<8572>>>>, <<8557, <<8573>>>>, <<8558, <<8574>>>>, <<8559,
    <<8575>>>>, <<8579, <<8580>>>>, <<9398, <<9424>>>>, <<9399, <<9425>>>>,
    <<9400, <<9426>>>>, <<9401, <<9427>>>>, <<9402, <<9428>>>>, <<9403,
    <<9429>>>>, <<9404, <<9430>>>>, <<9405, <<9431>>>>, <<9406, <<9432>>>>,
    <<9407, <<9433>>>>, <<9408, <<9434>>>>, <<9409, <<9435>>>>, <<9410,
    <<9436>>>>, <<9411, <<9437>>>>, <<9412, <<9438>>>>, <<9413, <<9439>>>>,
    <<9414, <<9440>>>>, <<9415, <<9441>>>>, <<9416, <<9442>>>>, <<9417,
    <<9443>>>>, <<9418, <<9444>>>>, <<9419, <<9445>>>>, <<9420, <<9446>>>>,
    <<9421, <<9447>>>>, <<9422, <<9448>>>>, <<9423, <<9449>>>>, <<11264,
    <<11312>>>>, <<11265, <<11313>>>>, <<11266, <<11314>>>>, <<11267,
    <<11315>>>>, <<11268, <<11316>>>>, <<11269, <<11317>>>>, <<11270,
    <<11318>>>>, <<11271, <<11319>>>>, <<11272, <<11320>>>>, <<11273,
    <<11321>>>>, <<11274, <<11322>>>>, <<11275, <<11323>>>>, <<11276,
    <<11324>>>>, <<11277, <<11325>>>>, <<11278, <<11326>>>>, <<11279,
    <<11327>>>>, <<11280, <<11328>>>>, <<11281, <<11329>>>>, <<11282,
    <<11330>>>>, <<11283, <<11331>>>>, <<11284, <<11332>>>>, <<11285,
    <<11333>>>>, <<11286, <<11334>>>>, <<11287, <<11335>>>>, <<11288,
    <<11336>>>>, <<11289, <<11337>>>>, <<11290, <<11338>>>>, <<11291,
    <<11339>>>>, <<11292, <<11340>>>>, <<11293, <<11341>>>>, <<11294,
    <<11342>>>>, <<11295, <<11343>>>>, <<11296, <<11344>>>>, <<11297,
    <<11345>>>>, <<11298, <<11346>>>>, <<11299, <<11347>>>>, <<11300,
    <<11348>>>>, <<11301, <<11349>>>>, <<11302, <<11350>>>>, <<11303,
    <<11351>>>>, <<11304, <<11352>>>>, <<11305, <<11353>>>>, <<11306,
    <<11354>>>>, <<11307, <<11355>>>>, <<11308, <<11356>>>>, <<11309,
    <<11357>>>>, <<11310, <<11358>>>>, <<11311, <<11359>>>>, <<11360,
    <<11361>>>>, <<11362, <<619>>>>, <<11363, <<7549>>>>, <<11364, <<637>>>>,
    <<11367, <<11368>>>>, <<11369, <<11370>>>>, <<11371, <<11372>>>>, <<11373,
    <<593>>>>, <<11374, <<625>>>>, <<11375, <<592>>>>, <<11376, <<594>>>>,
    <<11378, <<11379>>>>, <<11381, <<11382>>>>, <<11390, <<575>>>>, <<11391,
    <<576>>>>, <<11392, <<11393>>>>, <<11394, <<11395>>>>, <<11396,
    <<11397>>>>, <<11398, <<11399>>>>, <<11400, <<11401>>>>, <<11402,
    <<11403>>>>, <<11404, <<11405>>>>, <<11406, <<11407>>>>, <<11408,
    <<11409>>>>, <<11410, <<11411>>>>, <<11412, <<11413>>>>, <<11414,
    <<11415>>>>, <<11416, <<11417>>>>, <<11418, <<11419>>>>, <<11420,
    <<11421>>>>, <<11422, <<11423>>>>, <<11424, <<11425>>>>, <<11426,
    <<11427>>>>, <<11428, <<11429>>>>, <<11430, <<11431>>>>, <<11432,
    <<11433>>>>, <<11434, <<11435>>>>, <<11436, <<11437>>>>, <<11438,
    <<11439>>>>, <<11440, <<11441>>>>, <<11442, <<11443>>>>, <<11444,
    <<11445>>>>, <<11446, <<11447>>>>, <<11448, <<11449>>>>, <<11450,
    <<11451>>>>, <<11452, <<11453>>>>, <<11454, <<11455>>>>, <<11456,
    <<11457>>>>, <<11458, <<11459>>>>, <<11460, <<11461>>>>, <<11462,
    <<11463>>>>, <<11464, <<11465>>>>, <<11466, <<11467>>>>, <<11468,
    <<11469>>>>, <<11470, <<11471>>>>, <<11472, <<11473>>>>, <<11474,
    <<11475>>>>, <<11476, <<11477>>>>, <<11478, <<11479>>>>, <<11480,
    <<11481>>>>, <<11482, <<11483>>>>, <<11484, <<11485>>>>, <<11486,
    <<11487>>>>, <<11488, <<11489>>>>, <<11490, <<11491>>>>, <<11499,
    <<11500>>>>, <<11501, <<11502>>>>, <<11506, <<11507>>>>, <<42560,
    <<42561>>>>, <<42562, <<42563>>>>, <<42564, <<42565>>>>, <<42566,
    <<42567>>>>, <<42568, <<42569>>>>, <<42570, <<42571>>>>, <<42572,
    <<42573>>>>, <<42574, <<42575>>>>, <<42576, <<42577>>>>, <<42578,
    <<42579>>>>, <<42580, <<42581>>>>, <<42582, <<42583>>>>, <<42584,
    <<42585>>>>, <<42586, <<42587>>>>, <<42588, <<42589>>>>, <<42590,
    <<42591>>>>, <<42592, <<42593>>>>, <<42594, <<42595>>>>, <<42596,
    <<42597>>>>, <<42598, <<42599>>>>, <<42600, <<42601>>>>, <<42602,
    <<42603>>>>, <<42604, <<42605>>>>, <<42624, <<42625>>>>, <<42626,
    <<42627>>>>, <<42628, <<42629>>>>, <<42630, <<42631>>>>, <<42632,
    <<42633>>>>, <<42634, <<42635>>>>, <<42636, <<42637>>>>, <<42638,
    <<42639>>>>, <<42640, <<42641>>>>, <<42642, <<42643>>>>, <<42644,
    <<42645>>>>, <<42646, <<42647>>>>, <<42648, <<42649>>>>, <<42650,
    <<42651>>>>, <<42786, <<42787>>>>, <<42788, <<42789>>>>, <<42790,
    <<42791>>>>, <<42792, <<42793>>>>, <<42794, <<42795>>>>, <<42796,
    <<42797>>>>, <<42798, <<42799>>>>, <<42802, <<42803>>>>, <<42804,
    <<42805>>>>, <<42806, <<42807>>>>, <<42808, <<42809>>>>, <<42810,
    <<42811>>>>, <<42812, <<42813>>>>, <<42814, <<42815>>>>, <<42816,
    <<42817>>>>, <<42818, <<42819>>>>, <<42820, <<42821>>>>, <<42822,
    <<42823>>>>, <<42824, <<42825>>>>, <<42826, <<42827>>>>, <<42828,
    <<42829>>>>, <<42830, <<42831>>>>, <<42832, <<42833>>>>, <<42834,
    <<42835>>>>, <<42836, <<42837>>>>, <<42838, <<42839>>>>, <<42840,
    <<42841>>>>, <<42842, <<42843>>>>, <<42844, <<42845>>>>, <<42846,
    <<42847>>>>, <<42848, <<42849>>>>, <<42850, <<42851>>>>, <<42852,
    <<42853>>>>, <<42854, <<42855>>>>, <<42856, <<42857>>>>, <<42858,
    <<42859>>>>, <<42860, <<42861>>>>, <<42862, <<42863>>>>, <<42873,
    <<42874>>>>, <<42875, <<42876>>>>, <<42877, <<7545>>>>, <<42878,
    <<42879>>>>, <<42880, <<42881>>>>, <<42882, <<42883>>>>, <<42884,
    <<42885>>>>, <<42886, <<42887>>>>, <<42891, <<42892>>>>, <<42893,
    <<613>>>>, <<42896, <<42897>>>>, <<42898, <<42899>>>>, <<42902,
    <<42903>>>>, <<42904, <<42905>>>>, <<42906, <<42907>>>>, <<42908,
    <<42909>>>>, <<42910, <<42911>>>>, <<42912, <<42913>>>>, <<42914,
    <<42915>>>>, <<42916, <<42917>>>>, <<42918, <<42919>>>>, <<42920,
    <<42921>>>>, <<42922, <<614>>>>, <<42923, <<604>>>>, <<42924, <<609>>>>,
    <<42925, <<620>>>>, <<42926, <<618>>>>, <<42928, <<670>>>>, <<42929,
    <<647>>>>, <<42930, <<669>>>>, <<42931, <<43859>>>>, <<42932, <<42933>>>>,
    <<42934, <<42935>>>>, <<42936, <<42937>>>>, <<42938, <<42939>>>>, <<42940,
    <<42941>>>>, <<42942, <<42943>>>>, <<42944, <<42945>>>>, <<42946,
    <<42947>>>>, <<42948, <<42900>>>>, <<42949, <<642>>>>, <<42950,
    <<7566>>>>, <<42951, <<42952>>>>, <<42953, <<42954>>>>, <<42960,
    <<42961>>>>, <<42966, <<42967>>>>, <<42968, <<42969>>>>, <<42997,
    <<42998>>>>, <<65313, <<65345>>>>, <<65314, <<65346>>>>, <<65315,
    <<65347>>>>, <<65316, <<65348>>>>, <<65317, <<65349>>>>, <<65318,
    <<65350>>>>, <<65319, <<65351>>>>, <<65320, <<65352>>>>, <<65321,
    <<65353>>>>, <<65322, <<65354>>>>, <<65323, <<65355>>>>, <<65324,
    <<65356>>>>, <<65325, <<65357>>>>, <<65326, <<65358>>>>, <<65327,
    <<65359>>>>, <<65328, <<65360>>>>, <<65329, <<65361>>>>, <<65330,
    <<65362>>>>, <<65331, <<65363>>>>, <<65332, <<65364>>>>, <<65333,
    <<65365>>>>, <<65334, <<65366>>>>, <<65335, <<65367>>>>, <<65336,
    <<65368>>>>, <<65337, <<65369>>>>, <<65338, <<65370>>>>, <<66560,
    <<66600>>>>, <<66561, <<66601>>>>, <<66562, <<66602>>>>, <<66563,
    <<66603>>>>, <<66564, <<66604>>>>, <<66565, <<66605>>>>, <<66566,
    <<66606>>>>, <<66567, <<66607>>>>, <<66568, <<66608>>>>, <<66569,
    <<66609>>>>, <<66570, <<66610>>>>, <<66571, <<66611>>>>, <<66572,
    <<66612>>>>, <<66573, <<66613>>>>, <<66574, <<66614>>>>, <<66575,
    <<66615>>>>, <<66576, <<66616>>>>, <<66577, <<66617>>>>, <<66578,
    <<66618>>>>, <<66579, <<66619>>>>, <<66580, <<66620>>>>, <<66581,
    <<66621>>>>, <<66582, <<66622>>>>, <<66583, <<66623>>>>, <<66584,
    <<66624>>>>, <<66585, <<66625>>>>, <<66586, <<66626>>>>, <<66587,
    <<66627>>>>, <<66588, <<66628>>>>, <<66589, <<66629>>>>, <<66590,
    <<66630>>>>, <<66591, <<66631>>>>, <<66592, <<66632>>>>, <<66593,
    <<66633>>>>, <<66594, <<66634>>>>, <<66595, <<66635>>>>, <<66596,
    <<66636>>>>, <<66597, <<66637>>>>, <<66598, <<66638>>>>, <<66599,
    <<66639>>>>, <<66736, <<66776>>>>, <<66737, <<66777>>>>, <<66738,
    <<66778>>>>, <<66739, <<66779>>>>, <<66740, <<66780>>>>, <<66741,
    <<66781>>>>, <<66742, <<66782>>>>, <<66743, <<66783>>>>, <<66744,
    <<66784>>>>, <<66745, <<66785>>>>, <<66746, <<66786>>>>, <<66747,
    <<66787>>>>, <<66748, <<66788>>>>, <<66749, <<66789>>>>, <<66750,
    <<66790>>>>, <<66751, <<66791>>>>, <<66752, <<66792>>>>, <<66753,
    <<66793>>>>, <<66754, <<66794>>>>, <<66755, <<66795>>>>, <<66756,
    <<66796>>>>, <<66757, <<66797>>>>, <<66758, <<66798>>>>, <<66759,
    <<66799>>>>, <<66760, <<66800>>>>, <<66761, <<66801>>>>, <<66762,
    <<66802>>>>, <<66763, <<66803>>>>, <<66764, <<66804>>>>, <<66765,
    <<66805>>>>, <<66766, <<66806>>>>, <<66767, <<66807>>>>, <<66768,
    <<66808>>>>, <<66769, <<66809>>>>, <<66770, <<66810>>>>, <<66771,
    <<66811>>>>, <<66928, <<66967>>>>, <<66929, <<66968>>>>, <<66930,
    <<66969>>>>, <<66931, <<66970>>>>, <<66932, <<66971>>>>, <<66933,
    <<66972>>>>, <<66934, <<66973>>>>, <<66935, <<66974>>>>, <<66936,
    <<66975>>>>, <<66937, <<66976>>>>, <<66938, <<66977>>>>, <<66940,
    <<66979>>>>, <<66941, <<66980>>>>, <<66942, <<66981>>>>, <<66943,
    <<66982>>>>, <<66944, <<66983>>>>, <<66945, <<66984>>>>, <<66946,
    <<66985>>>>, <<66947, <<66986>>>>, <<66948, <<66987>>>>, <<66949,
    <<66988>>>>, <<66950, <<66989>>>>, <<66951, <<66990>>>>, <<66952,
    <<66991>>>>, <<66953, <<66992>>>>, <<66954, <<66993>>>>, <<66956,
    <<66995>>>>, <<66957, <<66996>>>>, <<66958, <<66997>>>>, <<66959,
    <<66998>>>>, <<66960, <<66999>>>>, <<66961, <<67000>>>>, <<66962,
    <<67001>>>>, <<66964, <<67003>>>>, <<66965, <<67004>>>>, <<68736,
    <<68800>>>>, <<68737, <<68801>>>>, <<68738, <<68802>>>>, <<68739,
    <<68803>>>>, <<68740, <<68804>>>>, <<68741, <<68805>>>>, <<68742,
    <<68806>>>>, <<68743, <<68807>>>>, <<68744, <<68808>>>>, <<68745,
    <<68809>>>>, <<68746, <<68810>>>>, <<68747, <<68811>>>>, <<68748,
    <<68812>>>>, <<68749, <<68813>>>>, <<68750, <<68814>>>>, <<68751,
    <<68815>>>>, <<68752, <<68816>>>>, <<68753, <<68817>>>>, <<68754,
    <<68818>>>>, <<68755, <<68819>>>>, <<68756, <<68820>>>>, <<68757,
    <<68821>>>>, <<68758, <<68822>>>>, <<68759, <<68823>>>>, <<68760,
    <<68824>>>>, <<68761, <<68825>>>>, <<68762, <<68826>>>>, <<68763,
    <<68827>>>>, <<68764, <<68828>>>>, <<68765, <<68829>>>>, <<68766,
    <<68830>>>>, <<68767, <<68831>>>>, <<68768, <<68832>>>>, <<68769,
    <<68833>>>>, <<68770, <<68834>>>>, <<68771, <<68835>>>>, <<68772,
    <<68836>>>>, <<68773, <<68837>>>>, <<68774, <<68838>>>>, <<68775,
    <<68839>>>>, <<68776, <<68840>>>>, <<68777, <<68841>>>>, <<68778,
    <<68842>>>>, <<68779, <<68843>>>>, <<68780, <<68844>>>>, <<68781,
    <<68845>>>>, <<68782, <<68846>>>>, <<68783, <<68847>>>>, <<68784,
    <<68848>>>>, <<68785, <<68849>>>>, <<68786, <<68850>>>>, <<71840,
    <<71872>>>>, <<71841, <<71873>>>>, <<71842, <<71874>>>>, <<71843,
    <<71875>>>>, <<71844, <<71876>>>>, <<71845, <<71877>>>>, <<71846,
    <<71878>>>>, <<71847, <<71879>>>>, <<71848, <<71880>>>>, <<71849,
    <<71881>>>>, <<71850, <<71882>>>>, <<71851, <<71883>>>>, <<71852,
    <<71884>>>>, <<71853, <<71885>>>>, <<71854, <<71886>>>>, <<71855,
    <<71887>>>>, <<71856, <<71888>>>>, <<71857, <<71889>>>>, <<71858,
    <<71890>>>>, <<71859, <<71891>>>>, <<71860, <<71892>>>>, <<71861,
    <<71893>>>>, <<71862, <<71894>>>>, <<71863, <<71895>>>>, <<71864,
    <<71896>>>>, <<71865, <<71897>>>>, <<71866, <<71898>>>>, <<71867,
    <<71899>>>>, <<71868, <<71900>>>>, <<71869, <<71901>>>>, <<71870,
    <<71902>>>>, <<71871, <<71903>>>>, <<93760, <<93792>>>>, <<93761,
    <<93793>>>>, <<93762, <<93794>>>>, <<93763, <<93795>>>>, <<93764,
    <<93796>>>>, <<93765, <<93797>>>>, <<93766, <<93798>>>>, <<93767,
    <<93799>>>>, <<93768, <<93800>>>>, <<93769, <<93801>>>>, <<93770,
    <<93802>>>>, <<93771, <<93803>>>>, <<93772, <<93804>>>>, <<93773,
    <<93805>>>>, <<93774, <<93806>>>>, <<93775, <<93807>>>>, <<93776,
    <<93808>>>>, <<93777, <<93809>>>>, <<93778, <<93810>>>>, <<93779,
    <<93811>>>>, <<93780, <<93812>>>>, <<93781, <<93813>>>>, <<93782,
    <<93814>>>>, <<93783, <<93815>>>>, <<93784, <<93816>>>>, <<93785,
    <<93817>>>>, <<93786, <<93818>>>>, <<93787, <<93819>>>>, <<93788,
    <<93820>>>>, <<93789, <<93821>>>>, <<93790, <<93822>>>>, <<93791,
    <<93823>>>>, <<125184, <<125218>>>>, <<125185, <<125219>>>>, <<125186,
    <<125220>>>>, <<125187, <<125221>>>>, <<125188, <<125222>>>>, <<125189,
    <<125223>>>>, <<125190, <<125224>>>>, <<125191, <<125225>>>>, <<125192,
    <<125226>>>>, <<125193, <<125227>>>>, <<125194, <<125228>>>>, <<125195,
    <<125229>>>>, <<125196, <<125230>>>>, <<125197, <<125231>>>>, <<125198,
    <<125232>>>>, <<125199, <<125233>>>>, <<125200, <<125234>>>>, <<125201,
    <<125235>>>>, <<125202, <<125236>>>>, <<125203, <<125237>>>>, <<125204,
    <<125238>>>>, <<125205, <<125239>>>>, <<125206, <<125240>>>>, <<125207,
    <<125241>>>>, <<125208, <<125242>>>>, <<125209, <<125243>>>>, <<125210,
    <<125244>>>>, <<125211, <<125245>>>>, <<125212, <<125246>>>>, <<125213,
    <<125247>>>>, <<125214, <<125248>>>>, <<125215, <<125249>>>>, <<125216,
    <<125250>>>>, <<125217, <<125251>>>> }

\* the ranges of the code points that are Case_Ignorable and that are Cased,
\* as str.lower() reads them around a capital sigma
CaseIgnorable == {
    <<39,39>>, <<46,46>>, <<58,58>>, <<94,94>>, <<96,96>>, <<168,168>>,
    <<173,173>>, <<175,175>>, <<180,180>>, <<183,184>>, <<688,879>>,
    <<884,885>>, <<890,890>>, <<900,901>>, <<903,903>>, <<1155,1161>>,
    <<1369,1369>>, <<1375,1375>>, <<1425,1469>>, <<1471,1471>>, <<1473,1474>>,
    <<1476,1477>>, <<1479,1479>>, <<1524,1524>>, <<1536,1541>>, <<1552,1562>>,
    <<1564,1564>>, <<1600,1600>>, <<1611,1631>>, <<1648,1648>>, <<1750,1757>>,
    <<1759,1768>>, <<1770,1773>>, <<1807,1807>>, <<1809,1809>>, <<1840,1866>>,
    <<1958,1968>>, <<2027,2037>>, <<2042,2042>>, <<2045,2045>>, <<2070,2093>>,
    <<2137,2139>>, <<2184,2184>>, <<2192,2193>>, <<2200,2207>>, <<2249,2306>>,
    <<2362,2362>>, <<2364,2364>>, <<2369,2376>>, <<2381,2381>>, <<2385,2391>>,
    <<2402,2403>>, <<2417,2417>>, <<2433,2433>>, <<2492,2492>>, <<2497,2500>>,
    <<2509,2509>>, <<2530,2531>>, <<2558,2558>>, <<2561,2562>>, <<2620,2620>>,
    <<2625,2626>>, <<2631,2632>>, <<2635,2637>>, <<2641,2641>>, <<2672,2673>>,
    <<2677,2677>>, <<2689,2690>>, <<2748,2748>>, <<2753,2757>>, <<2759,2760>>,
    <<2765,2765>>, <<2786,2787>>, <<2810,2815>>, <<2817,2817>>, <<2876,2876>>,
    <<2879,2879>>, <<2881,2884>>, <<2893,2893>>, <<2901,2902>>, <<2914,2915>>,
    <<2946,2946>>, <<3008,3008>>, <<3021,3021>>, <<3072,3072>>, <<3076,3076>>,
    <<3132,3132>>, <<3134,3136>>, <<3142,3144>>, <<3146,3149>>, <<3157,3158>>,
    <<3170,3171>>, <<3201,3201>>, <<3260,3260>>, <<3263,3263>>, <<3270,3270>>,
    <<3276,3277>>, <<3298,3299>>, <<3328,3329>>, <<3387,3388>>, <<3393,3396>>,
    <<3405,3405>>, <<3426,3427>>, <<3457,3457>>, <<3530,3530>>, <<3538,3540>>,
    <<3542,3542>>, <<3633,3633>>, <<3636,3642>>, <<3654,3662>>, <<3761,3761>>,
    <<3764,3772>>, <<3782,3782>>, <<3784,3789>>, <<3864,3865>>, <<3893,3893>>,
    <<3895,3895>>, <<3897,3897>>, <<3953,3966>>, <<3968,3972>>, <<3974,3975>>,
    <<3981,3991>>, <<3993,4028>>, <<4038,4038>>, <<4141,4144>>, <<4146,4151>>,
    <<4153,4154>>, <<4157,4158>>, <<4184,4185>>, <<4190,4192>>, <<4209,4212>>,
    <<4226,4226>>, <<4229,4230>>, <<4237,4237>>, <<4253,4253>>, <<4348,4348>>,
    <<4957,4959>>, <<5906,5908>>, <<5938,5939>>, <<5970,5971>>, <<6002,6003>>,
    <<6068,6069>>, <<6071,6077>>, <<6086,6086>>, <<6089,6099>>, <<6103,6103>>,
    <<6109,6109>>, <<6155,6159>>, <<6211,6211>>, <<6277,6278>>, <<6313,6313>>,
    <<6432,6434>>, <<6439,6440>>, <<6450,6450>>, <<6457,6459>>, <<6679,6680>>,
    <<6683,6683>>, <<6742,6742>>, <<6744,6750>>, <<6752,6752>>, <<6754,6754>>,
    <<6757,6764>>, <<6771,6780>>, <<6783,6783>>, <<6823,6823>>, <<6832,6862>>,
    <<6912,6915>>, <<6964,6964>>, <<6966,6970>>, <<6972,6972>>, <<6978,6978>>,
    <<7019,7027>>, <<7040,7041>>, <<7074,7077>>, <<7080,7081>>, <<7083,7085>>,
    <<7142,7142>>, <<7144,7145>>, <<7149,7149>>, <<7151,7153>>, <<7212,7219>>,
    <<7222,7223>>, <<7288,7293>>, <<7376,7378>>, <<7380,7392>>, <<7394,7400>>,
    <<7405,7405>>, <<7412,7412>>, <<7416,7417>>, <<7468,7530>>, <<7544,7544>>,
    <<7579,7679>>, <<8125,8125>>, <<8127,8129>>, <<8141,8143>>, <<8157,8159>>,
    <<8173,8175>>, <<8189,8190>>, <<8203,8207>>, <<8216,8217>>, <<8228,8228>>,
    <<8231,8231>>, <<8234,8238>>, <<8288,8292>>, <<8294,8303>>, <<8305,8305>>,
    <<8319,8319>>, <<8336,8348>>, <<8400,8432>>, <<11388,11389>>,
    <<11503,11505>>, <<11631,11631>>, <<11647,11647>>, <<11744,11775>>,
    <<11823,11823>>, <<12293,12293>>, <<12330,12333>>, <<12337,12341>>,
    <<12347,12347>>, <<12441,12446>>, <<12540,12542>>, <<40981,40981>>,
    <<42232,42237>>, <<42508,42508>>, <<42607,42610>>, <<42612,42621>>,
    <<42623,42623>>, <<42652,42655>>, <<42736,42737>>, <<42752,42785>>,
    <<42864,42864>>, <<42888,42890>>, <<42994,42996>>, <<43000,43001>>,
    <<43010,43010>>, <<43014,43014>>, <<43019,43019>>, <<43045,43046>>,
    <<43052,43052>>, <<43204,43205>>, <<43232,43249>>, <<43263,43263>>,
    <<43302,43309>>, <<43335,43345>>, <<43392,43394>>, <<43443,43443>>,
    <<43446,43449>>, <<43452,43453>>, <<43471,43471>>, <<43493,43494>>,
    <<43561,43566>>, <<43569,43570>>, <<43573,43574>>, <<43587,43587>>,
    <<43596,43596>>, <<43632,43632>>, <<43644,43644>>, <<43696,43696>>,
    <<43698,43700>>, <<43703,43704>>, <<43710,43711>>, <<43713,43713>>,
    <<43741,43741>>, <<43756,43757>>, <<43763,43764>>, <<43766,43766>>,
    <<43867,43871>>, <<43881,43883>>, <<44005,44005>>, <<44008,44008>>,
    <<44013,44013>>, <<64286,64286>>, <<64434,64450>>, <<65024,65039>>,
    <<65043,65043>>, <<65056,65071>>, <<65106,65106>>, <<65109,65109>>,
    <<65279,65279>>, <<65287,65287>>, <<65294,65294>>, <<65306,65306>>,
    <<65342,65342>>, <<65344,65344>>, <<65392,65392>>, <<65438,65439>>,
    <<65507,65507>>, <<65529,65531>>, <<66045,66045>>, <<66272,66272>>,
    <<66422,66426>>, <<67456,67461>>, <<67463,67504>>, <<67506,67514>>,
    <<68097,68099>>, <<68101,68102>>, <<68108,68111>>, <<68152,68154>>,
    <<68159,68159>>, <<68325,68326>>, <<68900,68903>>, <<69291,69292>>,
    <<69446,69456>>, <<69506,69509>>, <<69633,69633>>, <<69688,69702>>,
    <<69744,69744>>, <<69747,69748>>, <<69759,69761>>, <<69811,69814>>,
    <<69817,69818>>, <<69821,69821>>, <<69826,69826>>, <<69837,69837>>,
    <<69888,69890>>, <<69927,69931>>, <<69933,69940>>, <<70003,70003>>,
    <<70016,70017>>, <<70070,70078>>, <<70089,70092>>, <<70095,70095>>,
    <<70191,70193>>, <<70196,70196>>, <<70198,70199>>, <<70206,70206>>,
    <<70367,70367>>, <<70371,70378>>, <<70400,70401>>, <<70459,70460>>,
    <<70464,70464>>, <<70502,70508>>, <<70512,70516>>, <<70712,70719>>,
    <<70722,70724>>, <<70726,70726>>, <<70750,70750>>, <<70835,70840>>,
    <<70842,70842>>, <<70847,70848>>, <<70850,70851>>, <<71090,71093>>,
    <<71100,71101>>, <<71103,71104>>, <<71132,71133>>, <<71219,71226>>,
    <<71229,71229>>, <<71231,71232>>, <<71339,71339>>, <<71341,71341>>,
    <<71344,71349>>, <<71351,71351>>, <<71453,71455>>, <<71458,71461>>,
    <<71463,71467>>, <<71727,71735>>, <<71737,71738>>, <<71995,71996>>,
    <<71998,71998>>, <<72003,72003>>, <<72148,72151>>, <<72154,72155>>,
    <<72160,72160>>, <<72193,72202>>, <<72243,72248>>, <<72251,72254>>,
    <<72263,72263>>, <<72273,72278>>, <<72281,72283>>, <<72330,72342>>,
    <<72344,72345>>, <<72752,72758>>, <<72760,72765>>, <<72767,72767>>,
    <<72850,72871>>, <<72874,72880>>, <<72882,72883>>, <<72885,72886>>,
    <<73009,73014>>, <<73018,73018>>, <<73020,73021>>, <<73023,73029>>,
    <<73031,73031>>, <<73104,73105>>, <<73109,73109>>, <<73111,73111>>,
    <<73459,73460>>, <<78896,78904>>, <<92912,92916>>, <<92976,92982>>,
    <<92992,92995>>, <<94031,94031>>, <<94095,94111>>, <<94176,94177>>,
    <<94179,94180>>, <<110576,110579>>, <<110581,110587>>, <<110589,110590>>,
    <<113821,113822>>, <<113824,113827>>, <<118528,118573>>,
    <<118576,118598>>, <<119143,119145>>, <<119155,119170>>,
    <<119173,119179>>, <<119210,119213>>, <<119362,119364>>,
    <<121344,121398>>, <<121403,121452>>, <<121461,121461>>,
    <<121476,121476>>, <<121499,121503>>, <<121505,121519>>,
    <<122880,122886>>, <<122888,122904>>, <<122907,122913>>,
    <<122915,122916>>, <<122918,122922>>, <<123184,123197>>,
    <<123566,123566>>, <<123628,123631>>, <<125136,125142>>,
    <<125252,125259>>, <<127995,127999>>, <<917505,917505>>,
    <<917536,917631>>, <<917760,917999>> }

Cased == {
    <<65,90>>, <<97,122>>, <<170,170>>, <<181,181>>, <<186,186>>, <<192,214>>,
    <<216,246>>, <<248,442>>, <<444,447>>, <<452,659>>, <<661,696>>,
    <<704,705>>, <<736,740>>, <<837,837>>, <<880,883>>, <<886,887>>,
    <<890,893>>, <<895,895>>, <<902,902>>, <<904,906>>, <<908,908>>,
    <<910,929>>, <<931,1013>>, <<1015,1153>>, <<1162,1327>>, <<1329,1366>>,
    <<1376,1416>>, <<4256,4293>>, <<4295,4295>>, <<4301,4301>>, <<4304,4346>>,
    <<4349,4351>>, <<5024,5109>>, <<5112,5117>>, <<7296,7304>>, <<7312,7354>>,
    <<7357,7359>>, <<7424,7615>>, <<7680,7957>>, <<7960,7965>>, <<7968,8005>>,
    <<8008,8013>>, <<8016,8023>>, <<8025,8025>>, <<8027,8027>>, <<8029,8029>>,
    <<8031,8061>>, <<8064,8116>>, <<8118,8124>>, <<8126,8126>>, <<8130,8132>>,
    <<8134,8140>>, <<8144,8147>>, <<8150,8155>>, <<8160,8172>>, <<8178,8180>>,
    <<8182,8188>>, <<8305,8305>>, <<8319,8319>>, <<8336,8348>>, <<8450,8450>>,
    <<8455,8455>>, <<8458,8467>>, <<8469,8469>>, <<8473,8477>>, <<8484,8484>>,
    <<8486,8486>>, <<8488,8488>>, <<8490,8493>>, <<8495,8500>>, <<8505,8505>>,
    <<8508,8511>>, <<8517,8521>>, <<8526,8526>>, <<8544,8575>>, <<8579,8580>>,
    <<9398,9449>>, <<11264,11492>>, <<11499,11502>>, <<11506,11507>>,
    <<11520,11557>>, <<11559,11559>>, <<11565,11565>>, <<42560,42605>>,
    <<42624,42653>>, <<42786,42887>>, <<42891,42894>>, <<42896,42954>>,
    <<42960,42961>>, <<42963,42963>>, <<42965,42969>>, <<42997,42998>>,
    <<43000,43002>>, <<43824,43866>>, <<43868,43880>>, <<43888,43967>>,
    <<64256,64262>>, <<64275,64279>>, <<65313,65338>>, <<65345,65370>>,
    <<66560,66639>>, <<66736,66771>>, <<66776,66811>>, <<66928,66938>>,
    <<66940,66954>>, <<66956,66962>>, <<66964,66965>>, <<66967,66977>>,
    <<66979,66993>>, <<66995,67001>>, <<67003,67004>>, <<67456,67456>>,
    <<67459,67461>>, <<67463,67504>>, <<67506,67514>>, <<68736,68786>>,
    <<68800,68850>>, <<71840,71903>>, <<93760,93823>>, <<119808,119892>>,
    <<119894,119964>>, <<119966,119967>>, <<119970,119970>>,
    <<119973,119974>>, <<119977,119980>>, <<119982,119993>>,
    <<119995,119995>>, <<119997,120003>>, <<120005,120069>>,
    <<120071,120074>>, <<120077,120084>>, <<120086,120092>>,
    <<120094,120121>>, <<120123,120126>>, <<120128,120132>>,
    <<120134,120134>>, <<120138,120144>>, <<120146,120485>>,
    <<120488,120512>>, <<120514,120538>>, <<120540,120570>>,
    <<120572,120596>>, <<120598,120628>>, <<120630,120654>>,
    <<120656,120686>>, <<120688,120712>>, <<120714,120744>>,
    <<120746,120770>>, <<120772,120779>>, <<122624,122633>>,
    <<122635,122654>>, <<125184,125251>>, <<127280,127305>>,
    <<127312,127337>>, <<127344,127369>> }

IsCaseIgnorable(cp) == \E r \in CaseIgnorable : cp \in r[1]..r[2]
IsCased(cp) == \E r \in Cased : cp \in r[1]..r[2]

CapitalSigma == 931
SmallSigma == 963
SmallFinalSigma == 962

\* the last code point of the text that is not Case_Ignorable is Cased
RECURSIVE EndsCased(_)
EndsCased(text) ==
    IF text = <<>> THEN FALSE
    ELSE IF IsCaseIgnorable(text[Len(text)])
    THEN EndsCased(SubSeq(text, 1, Len(text) - 1))
    ELSE IsCased(text[Len(text)])

\* the first code point of the text that is not Case_Ignorable is Cased
RECURSIVE StartsCased(_)
StartsCased(text) ==
    IF text = <<>> THEN FALSE
    ELSE IF IsCaseIgnorable(Head(text)) THEN StartsCased(Tail(text))
    ELSE IsCased(Head(text))

\* str.lower() at position i of the text
LowerAt(text, i) ==
    LET cp == text[i]
    IN  IF cp < 128
        THEN <<IF cp \in CapitalA..CapitalZ THEN cp - CapitalA + SmallA ELSE cp>>
        ELSE IF cp = CapitalSigma
        THEN IF /\ EndsCased(SubSeq(text, 1, i - 1))
                /\ ~StartsCased(SubSeq(text, i + 1, Len(text)))
             THEN <<SmallFinalSigma>> ELSE <<SmallSigma>>
        ELSE Found({l \in LowerCaseOf : l[1] = cp}, <<cp>>)

\* str.lower() of a text
StrLower(text) ==
    Concat([i \in DOMAIN text |-> LowerAt(text, i)], 1, Len(text))

\* str.lower() of a string
Lower(s) == Characters(StrLower(CodePoints(s)))

NotQuote(cp) == cp # Apostrophe

\* slugify, QUOTE_PATTERN after the decoding: apostrophes are removed
RemoveQuotes(s) == SelectSeq(s, NotQuote)

\* slugify, NUMBERS_PATTERN "(?<=\d),(?=\d)": a comma between two digits
IsDigitComma(s, i) ==
    /\ s[i] = Comma
    /\ 1 < i
    /\ i < Len(s)
    /\ IsDecimalDigit(s[i - 1])
    /\ IsDecimalDigit(s[i + 1])

\* slugify: the commas between two digits are removed
RemoveDigitCommas(s) == KeepAt(s, {i \in DOMAIN s : ~IsDigitComma(s, i)})

\* slugify: every character outside [-a-zA-Z0-9] becomes the separator
ReplaceDisallowed(s) ==
    [i \in DOMAIN s |->
        IF s[i] \in SlugifyKeepSet
        THEN s[i] ELSE Dash]

\* slugify: runs of the separator collapse to one
CollapseDashes(s) ==
    KeepAt(s, {i \in DOMAIN s :
                  ~(s[i] = Dash /\ i < Len(s) /\ s[i + 1] = Dash)})

\* slugify: str.strip("-")
StripDashes(s) ==
    LET inner == {i \in DOMAIN s : s[i] # Dash}
    IN  IF inner = {} THEN <<>>
        ELSE SubSeq(s, CHOOSE i \in inner : \A j \in inner : i <= j,
                       CHOOSE i \in inner : \A j \in inner : j <= i)

\* slugify(name) of python-slugify with its default arguments, on a name of
\* printable ASCII characters (on which the first normalization and the
\* transliteration of slugify change nothing): apostrophes become
\* separators, character entities and decimal and hexadecimal character
\* references are decoded, the text is normalized and lowercased,
\* apostrophes that the decoding produced and commas between digits go,
\* every other character outside [-a-zA-Z0-9] becomes the separator, runs of
\* separators collapse and the ends are stripped
slugify(name) ==
    Characters(
      StripDashes(CollapseDashes(ReplaceDisallowed(
        RemoveDigitCommas(RemoveQuotes(
          StrLower(Normalize(
            Decode(QuotesToDash(CodePoints(name)),
                   <<"entity", "decimal", "hex">>)))))))))

\* re.match(r"^[a-z0-9-]+$", s) on a string that is not empty
SlugMatches(s) == \A i \in DOMAIN s : SlugChar(s[i])

\* mutant: the empty slug is not refused
OrgSlugInvalid_EmptyAllowed(name) == ~SlugMatches(Lower(slugify(name)))

\* not s or not re.match(r"^[a-z0-9-]+$", s)
SlugRefused(s) == s = <<>> \/ ~SlugMatches(s)

\* org_slug raises ValueError("Invalid organization name") when the slug is
\* empty or has a character outside [a-z0-9-]
OrgSlugInvalid(name) == SlugRefused(Lower(slugify(name)))

org_slug(name) == Lower(slugify(name))

org_collection_name(slug) == <<"o","r","g","_">> \o slug

\* str(ObjectId): a textual form that differs for different ids
RECURSIVE ObjectIdStr(_)
ObjectIdStr(oid) ==
    IF oid < 10 THEN <<Digits[oid + 1]>>
    ELSE ObjectIdStr(oid \div 10) \o <<Digits[(oid % 10) + 1]>>

----------------------------------------------------------------------------
(* Inputs *)

\* display names: two that normalize to "a-b", one each to "z9" and "c", and
\* one with no valid slug
Names == {
    <<"A"," ","b">>,
    <<"a","-","-","B","!">>,
    <<"Z","9">>,
    <<"c">>,
    <<"?","!">> }

Slugs == {org_slug(n) : n \in {m \in Names : ~OrgSlugInvalid(m)}}

CollectionNames == {org_collection_name(s) : s \in Slugs}

Emails == {"ann@x.io", "bob@x.io"}

PasswordHashes == {"$2b$hash"}

\* a requester id that is no ObjectId's textual form
NoSuchId == <<"n","o","n","e">>

----------------------------------------------------------------------------
(* The store *)

\* the filter {field: value} of a query
Matches(doc, field, value) == field \in DOMAIN doc /\ doc[field] = value

\* find_one({field: value}): the position of the first document that matches,
\* 0 for None
FindOne(coll, field, value) ==
    IF \E i \in DOMAIN coll : Matches(coll[i], field, value)
    THEN CHOOSE i \in DOMAIN coll :
            /\ Matches(coll[i], field, value)
            /\ \A j \in 1..(i - 1) : ~Matches(coll[j], field, value)
    ELSE 0

\* delete_one({field: value}): the collection without the first document that
\* matches
DeleteOne(coll, field, value) ==
    LET i == FindOne(coll, field, value)
    IN  IF i = 0 THEN coll
        ELSE SubSeq(coll, 1, i - 1) \o SubSeq(coll, i + 1, Len(coll))

\* mutant: the update matches no document
UpdateOne_Nothing(coll, field, value, set) == coll

\* update_one({field: value}, {"$set": set}): the first document that matches
\* gets the fields of set
UpdateOne(coll, field, value, set) ==
    [i \in DOMAIN coll |->
        IF i = FindOne(coll, field, value)
        THEN [k \in DOMAIN coll[i] \cup DOMAIN set |->
                IF k \in DOMAIN set THEN set[k] ELSE coll[i][k]]
        ELSE coll[i]]

\* mutant: the collection is not dropped
DropCollection_Kept(name) == colls

\* drop_collection(name)
DropCollection(name) == [colls EXCEPT ![name] = <<>>]

\* insert_one of doc (without "_id") as the document with id oid
InsertOne(coll, doc, oid) ==
    Append(coll, [k \in DOMAIN doc \cup {"_id"} |-> IF k = "_id" THEN oid ELSE doc[k]])

\* doc.pop("_id", None)
PopId(doc) == [k \in DOMAIN doc \ {"_id"} |-> doc[k]]

NoExc == [type |-> "", msg |-> ""]
ValueError(msg) == [type |-> "ValueError", msg |-> msg]
PermissionError(msg) == [type |-> "PermissionError", msg |-> msg]

\* the record of a call: what was called, with what, what it raised or returned
Call(op, args, exc, ret) == [op |-> op, args |-> args, exc |-> exc, ret |-> ret]

NoFreed == [s \in Slugs |-> "no"]

\* the workers that serve requests, and a worker that is in no call
ProcIds == {"p1", "p2"}
Idle == [op |-> "idle"]

Init ==
    /\ orgs = <<>>
    /\ admins = <<>>
    /\ colls = [c \in CollectionNames |-> <<>>]
    /\ nextOid = 1
    /\ now = 0
    /\ tokens = {}
    /\ last = Call("init", <<>>, NoExc, <<>>)
    /\ freed = NoFreed
    /\ procs = [p \in ProcIds |-> Idle]

----------------------------------------------------------------------------
(* OrganizationService *)

\* get_by_name: the position in orgs of the organization found, 0 for None
\* (for a name that has a slug; for any other name org_slug raises)
get_by_name(name) ==
    FindOne(orgs, "slug", org_slug(name))

\* mutant: the duplicate check queries the display name
CreateIsDuplicate_ByName(slug) ==
    FindOne(orgs, "name", slug) # 0

\* mutant: the duplicate check queries the name of the storage resource
CreateIsDuplicate_ByCollection(slug) ==
    FindOne(orgs, "collection_name", slug) # 0

\* create: the duplicate check of lines 103-104
CreateIsDuplicate(slug) ==
    FindOne(orgs, "slug", slug) # 0

\* mutant: the duplicate check queries the display name
UpdateIsDuplicate_ByName(new_slug) ==
    FindOne(orgs, "name", new_slug) # 0

\* update: the duplicate check of lines 142-143
UpdateIsDuplicate(new_slug) ==
    FindOne(orgs, "slug", new_slug) # 0

\* mutant: the update also sets created_at
UpdateOrgRecord_ResetCreated(org_id, new_name, new_slug, new_collection, utcnow) ==
    UpdateOne(orgs, "_id", org_id,
              [name |-> new_name, slug |-> new_slug,
               collection_name |-> new_collection, updated_at |-> utcnow,
               created_at |-> utcnow])

\* update, lines 160-163: update_one on the organization with this id;
\* utcnow is the reading of the clock taken as the handler built the
\* arguments, before the operation was awaited
UpdateOrgRecord(org_id, new_name, new_slug, new_collection, utcnow) ==
    UpdateOne(orgs, "_id", org_id,
              [name |-> new_name, slug |-> new_slug,
               collection_name |-> new_collection, updated_at |-> utcnow])

\* mutant: the requester is compared with the administrator record the
\* organization names
DeleteNotAuthorized_ByAdminRecord(org, requester_admin_id) ==
    ~\E a \in DOMAIN admins :
        /\ admins[a]._id = org.admin_id
        /\ ObjectIdStr(admins[a]._id) = requester_admin_id

\* mutant: any administrator may delete, not only the owner
DeleteNotAuthorized_AnyAdmin(org, requester_admin_id) ==
    ~\E a \in DOMAIN admins : ObjectIdStr(admins[a]._id) = requester_admin_id

\* delete: the ownership check of lines 172-173
DeleteNotAuthorized(org, requester_admin_id) ==
    ObjectIdStr(org.admin_id) # requester_admin_id

\* the requester ids tried: the textual form of the id of every administrator
\* record, and one that is no id's
RequesterIds == {ObjectIdStr(admins[i]._id) : i \in DOMAIN admins} \cup {NoSuchId}

----------------------------------------------------------------------------
(* AuthService: tokens *)

JWT_SECRET == "change-me"
JWT_ALG == "HS256"
JWT_EXPIRE_MINUTES == 60

\* the HMAC of a message under a key: a value that only this key and this
\* message produce
HmacSign(key, alg, payload) == [key |-> key, alg |-> alg, payload |-> payload]

\* jwt.encode(payload, key, algorithm): header, payload and signature
jwt_encode(payload, key, algorithm) ==
    [alg |-> algorithm, payload |-> payload,
     sig |-> HmacSign(key, algorithm, payload)]

\* create_token at clock reading t
create_token(admin_id, org_id, email, t) ==
    LET exp == t + JWT_EXPIRE_MINUTES
        payload == [sub |-> admin_id, org_id |-> org_id, email |-> email,
                    exp |-> exp]
    IN  jwt_encode(payload, JWT_SECRET, JWT_ALG)

JwtError(type) == [type |-> type, msg |-> ""]

\* jwt.decode: the expiry check of the library on a token whose signature is
\* good.  A token is expired once the clock is past "exp"; at the instant
\* "exp" itself the releases of the library differ (exp < now in 1.x,
\* exp <= now in 2.x) and the repository pins none, so both outcomes are kept.
ExpiryOutcomes(payload, t) ==
    IF payload.exp < t
    THEN {[exc |-> JwtError("ExpiredSignatureError"), ret |-> <<>>]}
    ELSE IF payload.exp = t
    THEN {[exc |-> JwtError("ExpiredSignatureError"), ret |-> <<>>],
          [exc |-> NoExc, ret |-> payload]}
    ELSE {[exc |-> NoExc, ret |-> payload]}

\* mutant: the signature is not verified
jwt_decode_Unverified(token, key, algorithms, t) ==
    ExpiryOutcomes(token.payload, t)

\* jwt.decode(token, key, algorithms) at clock reading t: the outcomes the
\* call can have.  The algorithm and the signature are checked before the
\* claims.
jwt_decode(token, key, algorithms, t) ==
    IF token.alg \notin algorithms
    THEN {[exc |-> JwtError("InvalidAlgorithmError"), ret |-> <<>>]}
    ELSE IF token.sig # HmacSign(key, token.alg, token.payload)
    THEN {[exc |-> JwtError("InvalidSignatureError"), ret |-> <<>>]}
    ELSE ExpiryOutcomes(token.payload, t)

\* mutant: the token of an administrator whose record is gone is refused
decode_token_Revocable(token, t) ==
    IF \E a \in DOMAIN admins : ObjectIdStr(admins[a]._id) = token.payload.sub
    THEN jwt_decode(token, JWT_SECRET, {JWT_ALG}, t)
    ELSE {[exc |-> JwtError("InvalidTokenError"), ret |-> <<>>]}

decode_token(token, t) == jwt_decode(token, JWT_SECRET, {JWT_ALG}, t)

\* the principals tokens are issued for
TokenAdminIds == {ObjectIdStr(2), ObjectIdStr(5)}
TokenOrgIds == {ObjectIdStr(3), ObjectIdStr(6)}

\* a token with one part of the signed structure changed: a claim, the
\* algorithm, or the signature (by a signer who lacks the key)
Altered(token) ==
    {[token EXCEPT !.payload.sub = x] : x \in TokenAdminIds \ {token.payload.sub}}
    \cup {[token EXCEPT !.payload.org_id = x] : x \in TokenOrgIds \ {token.payload.org_id}}
    \cup {[token EXCEPT !.payload.email = x] : x \in Emails \ {token.payload.email}}
    \cup {[token EXCEPT !.payload.exp = @ + 1]}
    \cup {[token EXCEPT !.alg = "none"]}
    \cup {[token EXCEPT !.sig = HmacSign("guess", token.alg, token.payload)]}

\* the instants at which the clock is read: the minutes in which tokens are
\* issued, and the minutes around their expiry
ClockTimes ==
    (0..MaxTime) \cup
    ((JWT_EXPIRE_MINUTES - 1)..(JWT_EXPIRE_MINUTES + MaxTime + 1))

\* time passes, to the next instant at which the clock is read
Tick ==
    /\ \E t \in ClockTimes : t > now
    /\ now' = CHOOSE t \in ClockTimes :
                 t > now /\ \A u \in ClockTimes : u > now => t <= u
    /\ UNCHANGED <<orgs, admins, colls, nextOid, tokens, last, freed, procs>>

\* create_token at the current clock reading, which the record of the call
\* keeps beside the arguments
CreateToken(admin_id, org_id, email) ==
    /\ now <= MaxTime
    /\ Cardinality(tokens) < MaxTokens
    /\ tokens' = tokens \cup {create_token(admin_id, org_id, email, now)}
    /\ last' = Call("create_token", <<admin_id, org_id, email, now>>, NoExc,
                     create_token(admin_id, org_id, email, now))
    /\ UNCHANGED <<orgs, admins, colls, nextOid, now, freed, procs>>

\* decode_token on a token presented at the current clock reading, which the
\* record of the call keeps beside the token
DecodeToken(token) ==
    /\ \E out \in decode_token(token, now) :
          last' = Call("decode_token", <<token, now>>, out.exc, out.ret)
    /\ UNCHANGED <<orgs, admins, colls, nextOid, now, tokens, freed, procs>>

\* the tokens presented: the issued ones and their alterations
PresentedTokens == tokens \cup UNION {Altered(tk) : tk \in tokens}

NextAuth ==
    \/ Tick
    \/ \E admin_id \in TokenAdminIds, org_id \in TokenOrgIds, email \in Emails :
          CreateToken(admin_id, org_id, email)
    \/ \E token \in PresentedTokens : DecodeToken(token)

SpecAuth == Init /\ [][NextAuth]_vars

----------------------------------------------------------------------------
(* org_slug on its own *)

\* the characters of the names tried: a capital, a small letter, a digit, the
\* separator, and three characters slugify replaces
NameChars == {"A", "b", "9", "-", " ", "!", "_"}

\* names with what slugify decodes or removes: a character entity, alone and
\* between letters, an entity that decodes to an accented letter, a decimal
\* and a hexadecimal character reference, an entity whose decoding makes a
\* reference, a reference to a code point chr refuses, a comma between
\* digits, an apostrophe; references to characters that decompose into an
\* ASCII letter and a mark; hexadecimal references whose digits are decimal
\* references to digits of another script, to the letter A, to a control
\* character, and one past the last code point, which undoes the whole pass
ReferenceNames == {
    <<"a","&","a","m","p",";","b">>,
    <<"&","a","m","p",";">>,
    <<"c","a","f","&","e","a","c","u","t","e",";">>,
    <<"&","#","6","5",";","b">>,
    <<"&","#","x","4","1",";","b">>,
    <<"&","a","m","p",";","#","6","6",";">>,
    <<"&","#","1","1","1","4","1","1","2",";">>,
    <<"1",",","0","0","0">>,
    <<"i","t","'","s">>,
    <<"&","#","2","5","6",";">>,
    <<"&","#","x","1","0","0",";">>,
    <<"&","#","8","4","9","1",";">>,
    <<"&","#","x","&","#","1","6","3","6",";","&","#","1","6","3","3",";",";">>,
    <<"&","#","x","&","#","1","6","3","3",";",";">>,
    <<"&","#","x","4","1",";","&","#","x","&","#","1","6","3","3",";","&","#","1","6","3","3",";","&","#","1","6","3","3",";">> \o
        <<"&","#","1","6","3","3",";","&","#","1","6","3","3",";","&","#","1","6","3","3",";","&","#","1","6","3","3",";",";">> }

\* every name of at most MaxNameLen of the characters of NameChars, the empty
\* one included, and the names of ReferenceNames
NameInputs ==
    UNION {[1..k -> NameChars] : k \in 0..MaxNameLen} \cup ReferenceNames

\* org_slug(name): it raises or returns the slug
OrgSlugCall(name) ==
    /\ last' = IF OrgSlugInvalid(name)
               THEN Call("org_slug", <<name>>,
                         ValueError("Invalid organization name"), <<>>)
               ELSE Call("org_slug", <<name>>, NoExc, org_slug(name))
    /\ UNCHANGED <<orgs, admins, colls, nextOid, now, tokens, freed, procs>>

\* org_slug is called on a name, and then on the slug that call returned
NextSlug ==
    \E name \in (IF last.op = "init" THEN NameInputs ELSE {}) \cup
                 (IF last.op = "org_slug" /\ last.exc = NoExc
                  THEN {last.ret} ELSE {}) :
        OrgSlugCall(name)

SpecSlug == Init /\ [][NextSlug]_vars

----------------------------------------------------------------------------
(* The calls of OrganizationService, one database operation at a time *)

\* Each handler is a coroutine: it runs to its next awaited database
\* operation, which the server performs atomically, and another worker may
\* run between two of them.  A worker that stops (the process dies, the
\* connection is lost) leaves what its call has written so far.

\* the awaited operations of each handler, in the order of the source text
CreateOrder_OrgFirst == <<"check", "storage", "org", "admin", "link">>
CreateOrder == <<"check", "storage", "admin", "org", "link">>
UpdateOrder_SetFirst == <<"check", "find", "set", "copy">>
UpdateOrder == <<"check", "find", "copy", "set">>
DeleteOrder_OrgFirst == <<"find", "org", "drop", "admin">>
DeleteOrder == <<"find", "drop", "admin", "org">>

Order(op) ==
    CASE op = "create" -> CreateOrder
      [] op = "update" -> UpdateOrder
      [] op = "delete" -> DeleteOrder

\* the point after pc: the next awaited operation, or the return statement
NextPc(order, pc) ==
    LET i == CHOOSE k \in DOMAIN order : order[k] = pc
    IN  IF i < Len(order) THEN order[i + 1] ELSE "return"

\* the awaited operations whose document the handler builds with
\* datetime.utcnow(): create's three inserts (lines 108, 113, 122-123) and
\* update's update_one (line 162)
ReadsClock(op, pc) ==
    \/ op = "create" /\ pc \in {"storage", "admin", "org"}
    \/ op = "update" /\ pc = "set"

\* a call suspended at its first awaited operation; slug and coll are the slug and the
\* collection name the handler has computed from its arguments.  utcnow is
\* the reading of the clock in the document the handler has built for the
\* operation it awaits (0 when that operation carries none): the handler
\* reads the clock as it builds the document, in its run up to the await,
\* and the operation is applied later.
NewCall(op, args, slug, coll) ==
    [op |-> op, args |-> args, pc |-> Head(Order(op)), slug |-> slug,
     coll |-> coll, src |-> <<>>, org_id |-> 0, admin_id |-> 0,
     opened |-> FALSE, docs |-> <<>>, copied |-> 0, utcnow |-> 0]

\* the worker stopped in the middle of a call
Crashed == [type |-> "Crashed", msg |-> ""]

\* the handler goes on to its next point, and reads the clock on its way
\* when the operation it awaits there carries a timestamp
Proceed(p, c) ==
    /\ procs' = [procs EXCEPT ![p] =
                   [c EXCEPT !.pc = NextPc(Order(c.op), c.pc),
                             !.utcnow = IF ReadsClock(c.op, NextPc(Order(c.op), c.pc))
                                        THEN now ELSE 0]]
    /\ UNCHANGED last

\* the handler raises
Raise(p, c, exc) ==
    /\ procs' = [procs EXCEPT ![p] = Idle]
    /\ last' = Call(c.op, c.args, exc, <<>>)
    /\ UNCHANGED <<orgs, admins, colls, nextOid>>

\* mutant: a unique index on "slug" rejects the insert
OrgInsertRejected_UniqueSlug(org_doc) ==
    FindOne(orgs, "slug", org_doc.slug) # 0

\* create, line 125: no index is declared on "organizations", so insert_one
\* accepts any document
OrgInsertRejected(org_doc) == FALSE

\* create: the awaited operation at c.pc
CreateDo(p, c) ==
    LET name == c.args[1]
        email == c.args[2]
        password_hash == c.args[3]
        admin_doc == [email |-> email, password_hash |-> password_hash,
                      created_at |-> c.utcnow]
        org_doc == [name |-> name, slug |-> c.slug,
                    collection_name |-> c.coll,
                    admin_id |-> c.admin_id, created_at |-> c.utcnow,
                    updated_at |-> c.utcnow]
    IN  CASE c.pc = "check" ->
               IF CreateIsDuplicate(c.slug)
               THEN Raise(p, c, ValueError("Organization already exists"))
               ELSE /\ Proceed(p, c)
                    /\ UNCHANGED <<orgs, admins, colls, nextOid>>
          [] c.pc = "storage" ->
               /\ nextOid <= MaxOid
               /\ colls' = [colls EXCEPT ![c.coll] =
                              InsertOne(@, [_schema_version |-> 1, _created_at |-> c.utcnow],
                                        nextOid)]
               /\ nextOid' = nextOid + 1
               /\ Proceed(p, c)
               /\ UNCHANGED <<orgs, admins>>
          [] c.pc = "admin" ->
               /\ nextOid <= MaxOid
               /\ admins' = InsertOne(admins, admin_doc, nextOid)
               /\ nextOid' = nextOid + 1
               /\ Proceed(p, [c EXCEPT !.admin_id = nextOid])
               /\ UNCHANGED <<orgs, colls>>
          [] c.pc = "org" ->
               IF OrgInsertRejected(org_doc)
               THEN Raise(p, c, [type |-> "DuplicateKeyError", msg |-> ""])
               ELSE /\ nextOid <= MaxOid
                    /\ orgs' = InsertOne(orgs, org_doc, nextOid)
                    /\ nextOid' = nextOid + 1
                    /\ Proceed(p, [c EXCEPT !.org_id = nextOid])
                    /\ UNCHANGED <<admins, colls>>
          [] c.pc = "link" ->
               /\ admins' = UpdateOne(admins, "_id", c.admin_id,
                                      [organization_id |-> c.org_id])
               /\ Proceed(p, c)
               /\ UNCHANGED <<orgs, colls, nextOid>>

\* update: the awaited operation at c.pc.  The cursor over the source
\* collection is opened by the first iteration of the loop and holds the
\* documents the collection has then; each further iteration inserts one.
UpdateDo(p, c) ==
    LET new_name == c.args[2]
        i == FindOne(orgs, "slug", c.args[1])
    IN  CASE c.pc = "check" ->
               IF UpdateIsDuplicate(c.slug)
               THEN Raise(p, c, ValueError("New organization name already exists"))
               ELSE /\ Proceed(p, c)
                    /\ UNCHANGED <<orgs, admins, colls, nextOid>>
          [] c.pc = "find" ->
               IF i = 0
               THEN Raise(p, c, ValueError("Organization not found"))
               ELSE /\ Proceed(p, [c EXCEPT !.org_id = orgs[i]._id,
                                            !.src = orgs[i].collection_name])
                    /\ UNCHANGED <<orgs, admins, colls, nextOid>>
          [] c.pc = "copy" /\ ~c.opened ->
               /\ IF colls[c.src] = <<>>
                  THEN Proceed(p, [c EXCEPT !.opened = TRUE])
                  ELSE /\ procs' = [procs EXCEPT ![p] =
                                      [c EXCEPT !.opened = TRUE, !.docs = colls[c.src]]]
                       /\ UNCHANGED last
               /\ UNCHANGED <<orgs, admins, colls, nextOid>>
          [] c.pc = "copy" /\ c.opened ->
               /\ nextOid <= MaxOid
               /\ colls' = [colls EXCEPT ![c.coll] =
                              InsertOne(@, PopId(Head(c.docs)), nextOid)]
               /\ nextOid' = nextOid + 1
               /\ IF Tail(c.docs) = <<>>
                  THEN Proceed(p, [c EXCEPT !.docs = <<>>, !.copied = @ + 1])
                  ELSE /\ procs' = [procs EXCEPT ![p] =
                                      [c EXCEPT !.docs = Tail(@), !.copied = @ + 1]]
                       /\ UNCHANGED last
               /\ UNCHANGED <<orgs, admins>>
          [] c.pc = "set" ->
               /\ orgs' = UpdateOrgRecord(c.org_id, new_name, c.slug, c.coll, c.utcnow)
               /\ Proceed(p, c)
               /\ UNCHANGED <<admins, colls, nextOid>>

\* delete: the awaited operation at c.pc
DeleteDo(p, c) ==
    LET i == FindOne(orgs, "slug", c.slug)
    IN  CASE c.pc = "find" ->
               IF i = 0
               THEN Raise(p, c, ValueError("Organization not found"))
               ELSE IF DeleteNotAuthorized(orgs[i], c.args[2])
               THEN Raise(p, c, PermissionError("Not authorized to delete this organization"))
               ELSE /\ Proceed(p, [c EXCEPT !.org_id = orgs[i]._id,
                                            !.admin_id = orgs[i].admin_id,
                                            !.coll = orgs[i].collection_name])
                    /\ UNCHANGED <<orgs, admins, colls, nextOid>>
          [] c.pc = "drop" ->
               /\ colls' = DropCollection(c.coll)
               /\ Proceed(p, c)
               /\ UNCHANGED <<orgs, admins, nextOid>>
          [] c.pc = "admin" ->
               /\ admins' = DeleteOne(admins, "_id", c.admin_id)
               /\ Proceed(p, c)
               /\ UNCHANGED <<orgs, colls, nextOid>>
          [] c.pc = "org" ->
               /\ orgs' = DeleteOne(orgs, "_id", c.org_id)
               /\ Proceed(p, c)
               /\ UNCHANGED <<admins, colls, nextOid>>

\* what the handler returns
Result(c) ==
    CASE c.op = "create" ->
            [id |-> ObjectIdStr(c.org_id), organization_name |-> c.args[1],
             organization_slug |-> c.slug, collection_name |-> c.coll,
             admin_email |-> c.args[2]]
      [] c.op = "update" ->
            [old_collection |-> c.src, new_collection |-> c.coll,
             organization_slug |-> c.slug]
      [] c.op = "delete" -> TRUE

\* an idle worker takes a create request: the handler computes the slug
\* (line 102), which raises on a name without one, and is suspended at its
\* first awaited operation, the find_one of line 103, which is yet to be
\* applied
BeginCreate(p, name, email, password_hash) ==
    /\ procs[p] = Idle
    /\ IF OrgSlugInvalid(name)
       THEN /\ last' = Call("create", <<name, email, password_hash>>,
                             ValueError("Invalid organization name"), <<>>)
            /\ UNCHANGED procs
       ELSE /\ procs' = [procs EXCEPT ![p] =
                           NewCall("create", <<name, email, password_hash>>,
                                   org_slug(name),
                                   org_collection_name(org_slug(name)))]
            /\ UNCHANGED last
    /\ UNCHANGED <<orgs, admins, colls, nextOid, now, tokens, freed>>

\* an idle worker takes an update request: the handler computes the new slug
\* (line 141) and is suspended at the find_one of line 142
BeginUpdate(p, current_slug, new_name) ==
    /\ procs[p] = Idle
    /\ IF OrgSlugInvalid(new_name)
       THEN /\ last' = Call("update", <<current_slug, new_name>>,
                             ValueError("Invalid organization name"), <<>>)
            /\ UNCHANGED procs
       ELSE /\ procs' = [procs EXCEPT ![p] =
                           NewCall("update", <<current_slug, new_name>>,
                                   org_slug(new_name),
                                   org_collection_name(org_slug(new_name)))]
            /\ UNCHANGED last
    /\ UNCHANGED <<orgs, admins, colls, nextOid, now, tokens, freed>>

\* an idle worker takes a delete request: the handler is suspended at the
\* find_one of line 168
BeginDelete(p, slug, requester_admin_id) ==
    /\ procs[p] = Idle
    /\ procs' = [procs EXCEPT ![p] =
                    NewCall("delete", <<slug, requester_admin_id>>, slug, <<>>)]
    /\ UNCHANGED <<orgs, admins, colls, nextOid, now, tokens, freed, last>>

\* a worker in a call performs its next awaited operation, or returns
Advance(p) ==
    /\ procs[p] # Idle
    /\ CASE procs[p].pc = "return" ->
              /\ procs' = [procs EXCEPT ![p] = Idle]
              /\ last' = Call(procs[p].op, procs[p].args, NoExc, Result(procs[p]))
              /\ UNCHANGED <<orgs, admins, colls, nextOid>>
         [] procs[p].pc # "return" /\ procs[p].op = "create" -> CreateDo(p, procs[p])
         [] procs[p].pc # "return" /\ procs[p].op = "update" -> UpdateDo(p, procs[p])
         [] procs[p].pc # "return" /\ procs[p].op = "delete" -> DeleteDo(p, procs[p])

\* the same, at one reading of the clock
Step(p) ==
    /\ Advance(p)
    /\ UNCHANGED <<now, tokens, freed>>

\* the history of the slugs after the step of a call c: the write of create's
\* organization record and the write of update's give the slug to an
\* organization, the return of a delete frees it
FreedAfter(c) ==
    CASE c.op = "create" /\ c.pc = "org" -> [freed EXCEPT ![c.slug] = "no"]
      [] c.op = "update" /\ c.pc = "set" ->
            [freed EXCEPT ![c.slug] = IF @ = "deleted" THEN "renamed" ELSE @]
      [] c.op = "delete" /\ c.pc = "return" -> [freed EXCEPT ![c.slug] = "deleted"]
      [] OTHER -> freed

\* the same step with the history kept; the clock has moved on by the time a
\* call that wrote timestamps has returned
StepOnClock(p) ==
    /\ Advance(p)
    /\ freed' = FreedAfter(procs[p])
    /\ now' = IF procs[p].pc = "return" /\ procs[p].op \in {"create", "update"}
              THEN now + 1 ELSE now
    /\ UNCHANGED tokens

\* a worker stops in the middle of its call; the record of the call keeps the
\* point it had reached and its local variables
Crash(p) ==
    /\ procs[p] # Idle
    /\ procs' = [procs EXCEPT ![p] = Idle]
    /\ last' = Call(procs[p].op, procs[p].args, Crashed, procs[p])
    /\ UNCHANGED <<orgs, admins, colls, nextOid, now, tokens, freed>>

\* the names requested in the step-by-step specifications: two names that
\* have a slug each
StepNames == {<<"c">>, <<"Z", "9">>}
StepSlugs == {org_slug(n) : n \in StepNames}
StepEmails == {"ann@x.io"}

\* the requester ids tried there: those of RequesterIds, and the requester of
\* the delete before, who may call again when its administrator record is gone
StepRequesterIds ==
    RequesterIds \cup (IF last.op = "delete" THEN {last.args[2]} ELSE {})

\* One worker serves the calls one after another; it may stop at any point of
\* a call, and the next call finds what the stopped one left.  The ids
\* generated stay within MaxCrashOid.
NextCrash ==
    \/ \E name \in StepNames, email \in StepEmails, password_hash \in PasswordHashes :
          BeginCreate("p1", name, email, password_hash) /\ nextOid' <= MaxCrashOid + 1
    \/ \E current_slug \in StepSlugs, new_name \in StepNames :
          BeginUpdate("p1", current_slug, new_name) /\ nextOid' <= MaxCrashOid + 1
    \/ \E slug \in StepSlugs, requester_admin_id \in StepRequesterIds :
          BeginDelete("p1", slug, requester_admin_id)
    \/ Step("p1") /\ nextOid' <= MaxCrashOid + 1
    \/ Crash("p1")

SpecCrash == Init /\ [][NextCrash]_vars

\* One worker, which may stop in a create or an update; a delete, once begun,
\* runs to its end.
NextCrashNoDelete ==
    \/ \E name \in StepNames, email \in StepEmails, password_hash \in PasswordHashes :
          BeginCreate("p1", name, email, password_hash) /\ nextOid' <= MaxCrashOid + 1
    \/ \E current_slug \in StepSlugs, new_name \in StepNames :
          BeginUpdate("p1", current_slug, new_name) /\ nextOid' <= MaxCrashOid + 1
    \/ \E slug \in StepSlugs, requester_admin_id \in StepRequesterIds :
          BeginDelete("p1", slug, requester_admin_id)
    \/ Step("p1") /\ nextOid' <= MaxCrashOid + 1
    \/ procs["p1"].op # "delete" /\ Crash("p1")

SpecCrashNoDelete == Init /\ [][NextCrashNoDelete]_vars

\* the new name requested by the workers that run at the same time, and the
\* names they create organizations with: a third name, so that two
\* organizations can be renamed to a slug that neither has, or one renamed to
\* it while an organization is created with it
ConcNewName == <<"A", " ", "b">>
ConcNames == StepNames \cup {ConcNewName}

\* Two workers serve create and update calls at the same time; their awaited
\* operations interleave in any order: a worker may be suspended at the
\* find_one of its check while the other performs any of its operations.
NextConc ==
    \E p \in ProcIds :
        \/ \E name \in ConcNames, email \in StepEmails, password_hash \in PasswordHashes :
              BeginCreate(p, name, email, password_hash)
        \/ \E current_slug \in StepSlugs :
              BeginUpdate(p, current_slug, ConcNewName)
        \/ Step(p)

SpecConc == Init /\ [][NextConc]_vars

\* One worker serves the calls one at a time, each to its return or raise
\* before the next is taken; every awaited database operation is a step of
\* its own, the first find_one included, so the states between the call and
\* its first operation and between two operations of a call are states of
\* the specification.  The ids generated stay within MaxSeqOid.
Next ==
    \/ \E name \in Names, email \in Emails, password_hash \in PasswordHashes :
          BeginCreate("p1", name, email, password_hash)
    \/ \E current_slug \in Slugs, new_name \in Names :
          BeginUpdate("p1", current_slug, new_name)
    \/ \E slug \in Slugs, requester_admin_id \in RequesterIds :
          BeginDelete("p1", slug, requester_admin_id)
    \/ StepOnClock("p1") /\ nextOid' <= MaxSeqOid + 1

Spec == Init /\ [][Next]_vars

----------------------------------------------------------------------------
(* Tokens over the life of an organization *)

\* create_token for the administrator of the organization record at position
\* i, with the ids and the email the records hold
IssueFor(i) ==
    LET a == FindOne(admins, "_id", orgs[i].admin_id)
    IN  /\ a # 0
        /\ CreateToken(ObjectIdStr(orgs[i].admin_id), ObjectIdStr(orgs[i]._id),
                       admins[a].email)

\* the name the organizations are created with there; a rename gives the
\* other name of StepNames
LifeName == <<"c">>

\* Organizations are created, renamed and deleted by one worker, one awaited
\* operation at a time; tokens are issued for the organizations that exist
\* and decoded at any time after, also in the middle of a call.  The ids
\* generated stay within MaxLifeOid.
NextLife ==
    \/ \E email \in StepEmails, password_hash \in PasswordHashes :
          BeginCreate("p1", LifeName, email, password_hash)
    \/ \E current_slug \in StepSlugs, new_name \in StepNames :
          BeginUpdate("p1", current_slug, new_name)
    \/ \E slug \in StepSlugs, requester_admin_id \in RequesterIds :
          BeginDelete("p1", slug, requester_admin_id)
    \/ Step("p1") /\ nextOid' <= MaxLifeOid + 1
    \/ \E i \in DOMAIN orgs : IssueFor(i)
    \/ \E token \in tokens : DecodeToken(token)
    \/ Tick

SpecLife == Init /\ [][NextLife]_vars

----------------------------------------------------------------------------
(* Properties *)

\* the errors of the specification, as the exceptions the code raises
DuplicateOrganizationError(exc) ==
    /\ exc.type = "ValueError"
    /\ exc.msg \in {"Organization already exists",
                    "New organization name already exists"}
OrganizationNotFoundError(exc) ==
    exc.type = "ValueError" /\ exc.msg = "Organization not found"
NotAuthorizedError(exc) == exc.type = "PermissionError"
TokenExpiredError(exc) == exc.type = "ExpiredSignatureError"
TokenInvalidError(exc) ==
    exc.type \in {"InvalidSignatureError", "InvalidAlgorithmError"}

\* some organization record has this slug
SlugInUse(slug) == \E i \in DOMAIN orgs : orgs[i].slug = slug

\* a call has just returned or raised: the step is a call of this operation
Called(op) == last' # last /\ last'.op = op

\* no worker is in the middle of a call
AllIdle == \A p \in ProcIds : procs[p] = Idle

\* the worker is in a call of this operation, suspended at its first awaited
\* operation: the find_one that looks the slug up
AtFirst(p, op) ==
    procs[p] # Idle /\ procs[p].op = op /\ procs[p].pc = Head(Order(op))
\* the step applies that find_one, and the call raises on what it finds ...
Refused(p, op) ==
    AtFirst(p, op) /\ procs'[p] = Idle /\ last'.op = op /\ last'.exc # NoExc
\* ... or the handler goes on to its next operation
Admitted(p, op) == AtFirst(p, op) /\ procs'[p] # Idle /\ procs'[p] # procs[p]
\* the step is one of a call of this operation
Running(p, op) == procs[p] # Idle /\ procs[p].op = op
\* the worker, idle until now, takes a call of this operation, which goes as
\* far as its first awaited operation
Taken(p, op) == procs[p] = Idle /\ procs'[p] # Idle /\ procs'[p].op = op

ValidNames == {n \in Names : ~OrgSlugInvalid(n)}

\* the documents of a collection without their identity fields, in order
Content(docs) == [i \in DOMAIN docs |-> PopId(docs[i])]

\* C1: with the calls run one at a time, a Create with a valid name raises
\* DuplicateOrganizationError exactly when, as it is called, some
\* organization record has the slug the name normalizes to, whatever the
\* display name of that record; otherwise it succeeds.  The Create is taken
\* with a valid name and leaves the records as they are until its lookup is
\* applied; the lookup raises DuplicateOrganizationError if some record has
\* the slug of the name and lets the handler go on if none has; and a Create
\* that has gone on runs to its return.
C1_CreateDuplicateIffSlugInUse ==
    [][\A p \in ProcIds :
          /\ Taken(p, "create") =>
                /\ procs'[p].args[1] \in ValidNames
                /\ UNCHANGED <<orgs, admins, colls>>
          /\ Refused(p, "create") =>
                /\ DuplicateOrganizationError(last'.exc)
                /\ last'.args = procs[p].args
                /\ SlugInUse(org_slug(procs[p].args[1]))
          /\ Admitted(p, "create") =>
                ~SlugInUse(org_slug(procs[p].args[1]))
          /\ AtFirst(p, "create") =>
                Refused(p, "create") \/ Admitted(p, "create")
          /\ Running(p, "create") /\ ~AtFirst(p, "create") /\ procs'[p] = Idle =>
                /\ last'.op = "create"
                /\ last'.args = procs[p].args
                /\ last'.exc = NoExc]_vars

\* a Create was rejected as a duplicate of an organization whose display name
\* differs from the name given
C1_Witness ==
    /\ last.op = "create"
    /\ DuplicateOrganizationError(last.exc)
    /\ \E i \in DOMAIN orgs :
          /\ orgs[i].slug = org_slug(last.args[1])
          /\ orgs[i].name # last.args[1]

\* what C2 says of the state after a successful Create (the state in which
\* the Create has returned and no later call has been taken), with the name
\* of the storage resource being this prefix and the slug
C2_AfterCreate(prefix) ==
    last.op = "create" /\ last.exc = NoExc /\ AllIdle =>
        LET name == last.args[1]
            email == last.args[2]
            slug == org_slug(name)
        IN  /\ \A n \in ValidNames : org_slug(n) = slug =>
                  /\ get_by_name(n) # 0
                  /\ LET org == orgs[get_by_name(n)]
                     IN  /\ org.slug = slug
                         /\ org.collection_name = prefix \o slug
                         /\ \E a \in DOMAIN admins :
                               /\ admins[a]._id = org.admin_id
                               /\ admins[a].email = email
            /\ last.ret.organization_slug = slug
            /\ last.ret.collection_name = prefix \o slug
            /\ last.ret.admin_email = email

\* C2 as stated: after a successful Create, looking up any name with the same
\* slug finds a record with that slug, whose storage resource is named
\* "tenant_" + slug and whose administrator has the email given; the view
\* returned says the same.  (org_collection_name gives "org_" + slug.)
C2_Original == C2_AfterCreate(<<"t","e","n","a","n","t","_">>)

\* C3: a Rename to a name whose slug some organization record already has
\* raises DuplicateOrganizationError and leaves every organization record,
\* every administrator record and every storage resource as it was: the call
\* ends at its first awaited operation, the lookup of the new slug, and
\* has written nothing before it and writes nothing there.
C3_RenameDuplicateChangesNothing ==
    [][\A p \in ProcIds :
          /\ Taken(p, "update") =>
                /\ procs'[p].args[2] \in ValidNames
                /\ UNCHANGED <<orgs, admins, colls>>
          /\ Admitted(p, "update") =>
                ~SlugInUse(org_slug(procs[p].args[2]))
          /\ (AtFirst(p, "update") /\ SlugInUse(org_slug(procs[p].args[2]))) =>
                /\ Refused(p, "update")
                /\ last'.args = procs[p].args
                /\ DuplicateOrganizationError(last'.exc)
                /\ UNCHANGED <<orgs, admins, colls>>]_vars

\* a Rename of one organization to the slug of another was rejected
C3_Witness ==
    /\ last.op = "update"
    /\ DuplicateOrganizationError(last.exc)
    /\ \E i, j \in DOMAIN orgs :
          /\ i # j
          /\ orgs[i].slug = last.args[1]
          /\ orgs[j].slug = org_slug(last.args[2])
          /\ colls[orgs[i].collection_name] # <<>>

\* the organization record with this slug, in the state before the step
OrgWithSlug(slug) == orgs[CHOOSE i \in DOMAIN orgs : orgs[i].slug = slug]

\* C4 as stated: after a successful Rename the destination resource holds
\* exactly the documents the source held when the Rename started (as many,
\* with the same content, identity fields aside), the organization record has
\* the new slug and resource name, and the old resource is still there with
\* its documents.  (The calls run one at a time and the source is another
\* resource than the destination, so the source holds when the Rename returns
\* what it held when the Rename started.)
C4_Original ==
    (last.op = "update" /\ last.exc = NoExc /\ AllIdle) =>
        LET src == last.ret.old_collection
            dst == last.ret.new_collection
            new_slug == org_slug(last.args[2])
        IN  /\ dst = org_collection_name(new_slug)
            /\ src # dst
            /\ Content(colls[dst]) = Content(colls[src])
            /\ \E i \in DOMAIN orgs :
                  /\ orgs[i].slug = new_slug
                  /\ orgs[i].collection_name = dst
            /\ colls[src] # <<>>

\* C5: a Delete of an existing organization by a requester whose id is not the
\* text of its owner's id raises NotAuthorizedError and leaves every
\* organization record, administrator record and storage resource as it was.
\* The Delete is taken without a change to the records, and its lookup, the
\* first operation it awaits, ends it there.
C5_DeleteByOtherChangesNothing ==
    [][\A p \in ProcIds :
          /\ Taken(p, "delete") => UNCHANGED <<orgs, admins, colls>>
          /\ Admitted(p, "delete") =>
                /\ SlugInUse(procs[p].args[1])
                /\ ObjectIdStr(OrgWithSlug(procs[p].args[1]).admin_id)
                      = procs[p].args[2]
          /\ (/\ AtFirst(p, "delete")
              /\ SlugInUse(procs[p].args[1])
              /\ ObjectIdStr(OrgWithSlug(procs[p].args[1]).admin_id)
                    # procs[p].args[2]) =>
                /\ Refused(p, "delete")
                /\ last'.args = procs[p].args
                /\ NotAuthorizedError(last'.exc)
                /\ UNCHANGED <<orgs, admins, colls>>]_vars

\* a Delete by the administrator of another organization was refused
C5_Witness ==
    /\ last.op = "delete"
    /\ NotAuthorizedError(last.exc)
    /\ \E a \in DOMAIN admins : ObjectIdStr(admins[a]._id) = last.args[2]
    /\ \E i \in DOMAIN orgs :
          /\ orgs[i].slug = last.args[1]
          /\ colls[orgs[i].collection_name] # <<>>
          /\ \E a \in DOMAIN admins : admins[a]._id = orgs[i].admin_id

\* a sequence without the elements that satisfy drop
RECURSIVE Without(_, _, _)
Without(seq, field, value) ==
    IF seq = <<>> THEN <<>>
    ELSE IF seq[1][field] = value THEN Without(Tail(seq), field, value)
    ELSE <<seq[1]>> \o Without(Tail(seq), field, value)

\* what C6 says of a Delete by the owner, step by step: the call is taken
\* without a change to the records; its lookup admits it with the
\* organization record of the slug, its owner and its resource as what it is
\* to remove; each of its steps after that removes one of the three, in
\* full, or nothing, and leaves the rest of the store as it was; and when it
\* returns the three are gone
C6_DeleteStep(p) ==
    /\ Taken(p, "delete") => UNCHANGED <<orgs, admins, colls>>
    /\ (/\ AtFirst(p, "delete")
        /\ SlugInUse(procs[p].args[1])
        /\ ObjectIdStr(OrgWithSlug(procs[p].args[1]).admin_id) = procs[p].args[2]) =>
          /\ Admitted(p, "delete")
          /\ procs'[p].args = procs[p].args
          /\ procs'[p].org_id = OrgWithSlug(procs[p].args[1])._id
          /\ procs'[p].admin_id = OrgWithSlug(procs[p].args[1]).admin_id
          /\ procs'[p].coll = OrgWithSlug(procs[p].args[1]).collection_name
          /\ UNCHANGED <<orgs, admins, colls>>
    /\ Running(p, "delete") /\ ~AtFirst(p, "delete") =>
          LET c == procs[p]
          IN  /\ orgs' \in {orgs, Without(orgs, "_id", c.org_id)}
              /\ admins' \in {admins, Without(admins, "_id", c.admin_id)}
              /\ colls' \in {colls, [n \in DOMAIN colls |->
                                        IF n = c.coll THEN <<>> ELSE colls[n]]}
              /\ procs'[p] = Idle =>
                    /\ last' = Call("delete", c.args, NoExc, TRUE)
                    /\ ~\E i \in DOMAIN orgs' : orgs'[i]._id = c.org_id
                    /\ ~\E a \in DOMAIN admins' : admins'[a]._id = c.admin_id
                    /\ colls'[c.coll] = <<>>

\* no lookup of a name with this slug finds an organization
NotFound(slug) ==
    /\ ~SlugInUse(slug)
    /\ \A n \in ValidNames : org_slug(n) = slug => get_by_name(n) = 0

\* C6 as stated, its last part: once a Delete of a slug has completed, a
\* lookup of the slug finds nothing until a Create uses the slug.
C6_Original ==
    \A slug \in Slugs : freed[slug] # "no" => NotFound(slug)

\* C6 amended: a Delete by the owner removes the organization record, the
\* owner's record and the organization's resource and nothing else; from then
\* on a lookup of the slug finds nothing until a Create or a Rename gives the
\* slug to an organization.
C6_DeleteRemoves ==
    [][/\ \A p \in ProcIds : C6_DeleteStep(p)
       /\ \A slug \in Slugs : freed'[slug] = "deleted" =>
             /\ ~\E i \in DOMAIN orgs' : orgs'[i].slug = slug
             /\ FindOne(orgs', "slug", slug) = 0]_vars

\* the owner has deleted one of two organizations; the other, its
\* administrator and its resource are there
C6_Witness ==
    /\ last.op = "delete" /\ last.exc = NoExc /\ AllIdle
    /\ freed[last.args[1]] = "deleted"
    /\ Len(orgs) = 1 /\ Len(admins) = 1
    /\ colls[orgs[1].collection_name] # <<>>

\* C7: no two organization records have the same slug, and no two name the
\* same storage resource.
C7_SlugsAndResourcesUnique ==
    \A i, j \in DOMAIN orgs : i # j =>
        /\ orgs[i].slug # orgs[j].slug
        /\ orgs[i].collection_name # orgs[j].collection_name

\* two organizations exist, one of them renamed
C7_Witness ==
    /\ Len(orgs) = 2
    /\ last.op = "update" /\ last.exc = NoExc /\ AllIdle

\* C8 as stated: no two administrator records have the same email.
C8_Original ==
    \A i, j \in DOMAIN admins : i # j => admins[i].email # admins[j].email

\* C9 as stated: a Rename to a new display name raises
\* DuplicateOrganizationError only when an organization other than the one
\* named by the current slug has the slug of the new name.
C9_Original ==
    [][Called("update") /\ DuplicateOrganizationError(last'.exc)
         /\ ~(\E i \in DOMAIN orgs :
                 orgs[i].slug = last'.args[1] /\ orgs[i].name = last'.args[2]) =>
        \E i \in DOMAIN orgs :
            /\ orgs[i].slug = org_slug(last'.args[2])
            /\ orgs[i].slug # last'.args[1]]_vars

\* what C10 says of a token issued, and of a decode at clock reading t of a
\* token: an issued token carries the claims given and the expiry of its
\* issue time plus the time to live; an issued token is decoded to its claims
\* before its expiry (and, with atExpiry, at the instant of its expiry too),
\* fails with TokenExpiredError after its expiry and does one or the other at
\* any other reading; an altered token fails with TokenInvalidError at every
\* reading
C10_Tokens(atExpiry) ==
    /\ last.op = "create_token" =>
          /\ last.ret \in tokens
          /\ last.ret.payload =
                [sub |-> last.args[1], org_id |-> last.args[2],
                 email |-> last.args[3],
                 exp |-> last.args[4] + JWT_EXPIRE_MINUTES]
    /\ last.op = "decode_token" =>
          LET token == last.args[1]
              t == last.args[2]
          IN  IF token \in tokens
              THEN /\ t < token.payload.exp \/ (atExpiry /\ t = token.payload.exp) =>
                         last.exc = NoExc /\ last.ret = token.payload
                   /\ t > token.payload.exp =>
                         TokenExpiredError(last.exc)
                   /\ \/ last.exc = NoExc /\ last.ret = token.payload
                      \/ TokenExpiredError(last.exc)
              ELSE TokenInvalidError(last.exc)

\* C10 as stated: a token issued at t carries the expiry t + ttl; decoding it
\* unaltered at any time up to the expiry returns its claims, at any time
\* after the expiry fails with TokenExpiredError; decoding an altered token
\* fails with TokenInvalidError at every time.
C10_Original == C10_Tokens(TRUE)

\* C10 amended: the same, with the claims returned at any time before the
\* expiry; at the instant of the expiry the token is either accepted or
\* refused with TokenExpiredError.
C10_TokenLifetime == C10_Tokens(FALSE)

\* an issued token has been refused as expired, one minute after its expiry
C10_Witness ==
    /\ last.op = "decode_token"
    /\ last.args[1] \in tokens
    /\ last.args[2] = last.args[1].payload.exp + 1
    /\ TokenExpiredError(last.exc)

----------------------------------------------------------------------------
(* Concurrency and crashes *)

\* two calls whose names have one slug have both written their organization
\* record and are both about to return: the record of each has that slug
C11_Race(op1, op2) ==
    \E p, q \in ProcIds :
        /\ p # q
        /\ procs[p] # Idle /\ procs[p].op = op1 /\ procs[p].pc = "return"
        /\ procs[q] # Idle /\ procs[q].op = op2 /\ procs[q].pc = "return"
        /\ procs[p].slug = procs[q].slug
        /\ \E i, j \in DOMAIN orgs :
              /\ i # j
              /\ orgs[i]._id = procs[p].org_id
              /\ orgs[j]._id = procs[q].org_id
              /\ orgs[i].slug = procs[p].slug
              /\ orgs[j].slug = procs[p].slug

\* C11: the engine does not exclude concurrent calls from one another.  The
\* find-by-slug check of a Create or a Rename looks at the organization
\* records that are written and at nothing else: it raises
\* DuplicateOrganizationError if one of them has the slug and lets the call
\* go on if none has, whatever call the other worker is in and however far
\* that call has got.  A call that has passed its check is never rejected as
\* a duplicate afterwards and is never checked again: its write of the
\* organization record goes through with the slug it checked, whatever
\* another call has written in between.  (So two calls with one slug both
\* succeed when both are checked before either writes; the states they reach
\* are C11_Witness, C11_CreateAndRename and C11_TwoCreates.)
C11_NoMutualExclusion ==
    [][\A p \in ProcIds :
          (procs[p] # Idle /\ procs'[p] # procs[p]) =>
             /\ procs[p].pc = "check" =>
                    IF SlugInUse(procs[p].slug)
                    THEN /\ procs'[p] = Idle
                         /\ DuplicateOrganizationError(last'.exc)
                    ELSE /\ procs'[p] # Idle
                         /\ procs'[p].pc = NextPc(Order(procs[p].op), "check")
             /\ procs[p].pc # "check" =>
                    /\ procs'[p] = Idle =>
                           /\ ~DuplicateOrganizationError(last'.exc)
                           /\ last'.exc.type # "DuplicateKeyError"
                    /\ (procs[p].op = "create" /\ procs[p].pc = "org") =>
                           /\ Len(orgs') = Len(orgs) + 1
                           /\ orgs'[Len(orgs')].slug = procs[p].slug
                    /\ (procs[p].op = "update" /\ procs[p].pc = "set") =>
                           \A i \in DOMAIN orgs :
                               orgs[i]._id = procs[p].org_id =>
                                   orgs'[i].slug = procs[p].slug
      ]_vars

\* two Renames of two organizations to one new name have both passed their
\* check and written: both are about to return, and the two organization
\* records share the new slug
C11_Witness == C11_Race("update", "update")

\* the same of a Create and a Rename to the name created ...
C11_CreateAndRename == C11_Race("create", "update")

\* ... and of two Creates of names with one slug
C11_TwoCreates == C11_Race("create", "create")

\* C12: org_slug is idempotent over the names it accepts.  Every slug it
\* returns is non-empty and made of the characters [a-z0-9-] only, and
\* org_slug applied to a slug it has returned succeeds and returns that slug.
C12_SlugIdempotent ==
    [][Called("org_slug") =>
          /\ last'.exc = NoExc =>
                /\ last'.ret # <<>>
                /\ \A i \in DOMAIN last'.ret : last'.ret[i] \in SlugCharSet
          /\ (last.op = "org_slug" /\ last.exc = NoExc /\ last'.args[1] = last.ret) =>
                /\ last'.exc = NoExc
                /\ last'.ret = last.ret
      ]_vars

\* org_slug has been applied to a slug it had returned for another name (the
\* small "a" comes from a capital only), and has returned it
C12_Witness ==
    /\ last.op = "org_slug" /\ last.exc = NoExc
    /\ last.args[1] = last.ret
    /\ Len(last.ret) = 3
    /\ last.ret[1] = "a" /\ last.ret[2] = "-"

\* an administrator record, an organization record with this id exists
AdminExists(admin_id) == \E a \in DOMAIN admins : admins[a]._id = admin_id
OrgExists(org_id) == \E i \in DOMAIN orgs : orgs[i]._id = org_id

\* C13: Create writes the storage resource, then the administrator record,
\* then the organization record, then the back-link.  At each point of a
\* running create what the earlier points wrote is there, and in every state
\* in which no delete is in progress (a create may be running, or may have
\* stopped at any point) every organization record names an administrator
\* record that exists and a storage resource that has been provisioned.
C13_CreateOrderKeepsReferences ==
    /\ \A p \in ProcIds :
          procs[p].op = "create" =>
             /\ procs[p].pc \in {"admin", "org", "link", "return"} =>
                   colls[procs[p].coll] # <<>>
             /\ procs[p].pc \in {"org", "link", "return"} =>
                   AdminExists(procs[p].admin_id)
             /\ procs[p].pc \in {"link", "return"} =>
                   \E i \in DOMAIN orgs :
                       /\ orgs[i]._id = procs[p].org_id
                       /\ orgs[i].admin_id = procs[p].admin_id
                       /\ orgs[i].collection_name = procs[p].coll
    /\ (\A p \in ProcIds : procs[p].op # "delete") =>
          \A i \in DOMAIN orgs :
              /\ AdminExists(orgs[i].admin_id)
              /\ colls[orgs[i].collection_name] # <<>>

\* a create has stopped after it had written its storage resource and its
\* administrator record, beside an organization created before: the
\* administrator record is there, and no organization record names it
C13_Witness ==
    /\ \A p \in ProcIds : procs[p] = Idle
    /\ last.op = "create" /\ last.exc = Crashed
    /\ last.ret.pc = "org"
    /\ Len(orgs) = 1
    /\ AdminExists(last.ret.admin_id)
    /\ colls[last.ret.coll] # <<>>
    /\ \A i \in DOMAIN orgs : orgs[i].admin_id # last.ret.admin_id

\* a delete has just stopped between two of its three writes: after the drop
\* of the collection, or after the delete of the administrator record
DeleteCrashedBetweenSteps ==
    /\ \A p \in ProcIds : procs[p] = Idle
    /\ last.op = "delete" /\ last.exc = Crashed
    /\ last.ret.pc \in {"admin", "org"}

\* C14 as stated: a delete that stops between its steps leaves an
\* administrator record or a storage resource without its organization record
C14_Original ==
    DeleteCrashedBetweenSteps =>
        /\ ~OrgExists(last.ret.org_id)
        /\ \/ AdminExists(last.ret.admin_id)
           \/ colls[last.ret.coll] # <<>>

\* C14: Delete drops the storage resource, then deletes the administrator
\* record, then the organization record.  The organization record goes last,
\* so a delete that stops between its steps leaves the organization record in
\* place: without its storage resource, and after the second step without its
\* administrator record too.  In no state, whatever has stopped before it, is
\* an administrator record that is linked to an organization left without
\* the record of that organization.
C14_DeleteCrashKeepsOrgRecord ==
    /\ DeleteCrashedBetweenSteps =>
          /\ \E i \in DOMAIN orgs :
                /\ orgs[i]._id = last.ret.org_id
                /\ orgs[i].admin_id = last.ret.admin_id
                /\ orgs[i].collection_name = last.ret.coll
          /\ colls[last.ret.coll] = <<>>
          /\ last.ret.pc = "org" => ~AdminExists(last.ret.admin_id)
    /\ \A a \in DOMAIN admins :
          "organization_id" \in DOMAIN admins[a] =>
              OrgExists(admins[a].organization_id)

\* a delete has stopped after its second step: the organization record is
\* there, its administrator record and its storage resource are not
C14_Witness ==
    /\ DeleteCrashedBetweenSteps
    /\ last.ret.pc = "org"
    /\ OrgExists(last.ret.org_id)
    /\ ~AdminExists(last.ret.admin_id)

\* an update has just stopped in its copy loop, with some documents of the
\* source copied and some not
UpdateCrashedMidCopy ==
    /\ \A p \in ProcIds : procs[p] = Idle
    /\ last.op = "update" /\ last.exc = Crashed
    /\ last.ret.pc = "copy"
    /\ last.ret.copied > 0 /\ last.ret.docs # <<>>

\* C15 as stated: after an update has stopped part-way through its copy the
\* organization record names the destination, which has part of the documents
C15_Original ==
    UpdateCrashedMidCopy =>
        \E i \in DOMAIN orgs :
            /\ orgs[i]._id = last.ret.org_id
            /\ orgs[i].collection_name = last.ret.coll

\* C15: the organization record is updated after the copy loop.  After an
\* update has stopped part-way through its copy the organization record is
\* as it was: it has its old slug and names the source resource, which has
\* all its documents.  The destination has got the first copied documents of
\* the source, and no organization record names it.
C15_RenameCrashKeepsSource ==
    UpdateCrashedMidCopy =>
        LET c == last.ret
            src == colls[c.src]
            dst == colls[c.coll]
            n == c.copied
        IN  /\ \E i \in DOMAIN orgs :
                  /\ orgs[i]._id = c.org_id
                  /\ orgs[i].slug = c.args[1]
                  /\ orgs[i].collection_name = c.src
            /\ \A i \in DOMAIN orgs : orgs[i].collection_name # c.coll
            /\ Len(src) = n + Len(c.docs)
            /\ Len(dst) >= n
            /\ Content(SubSeq(dst, Len(dst) - n + 1, Len(dst))) =
                  Content(SubSeq(src, 1, n))

\* an update has stopped after one of the two documents of its source
C15_Witness ==
    /\ UpdateCrashedMidCopy
    /\ last.ret.copied = 1
    /\ Len(colls[last.ret.src]) = 2
    /\ colls[last.ret.coll] # <<>>

\* a delete with the arguments of the delete that has just stopped at one of
\* the points pcs (the ownership check was passed before each of them) has
\* raised or returned
DeleteRetried(pcs) ==
    /\ last.op = "delete" /\ last.exc = Crashed
    /\ last.ret.pc \in pcs
    /\ Called("delete")
    /\ last'.args = last.args
    /\ last'.exc # Crashed

\* nothing of the organization of the stopped delete is there after the step
NothingLeftBehind ==
    /\ \A i \in DOMAIN orgs' : orgs'[i]._id # last.ret.org_id
    /\ \A a \in DOMAIN admins' : admins'[a]._id # last.ret.admin_id
    /\ colls'[last.ret.coll] = <<>>

\* C20 as stated: the delete called again after a stop after any one of the
\* three steps succeeds and leaves nothing behind
C20_Original ==
    [][DeleteRetried({"admin", "org", "return"}) =>
          /\ last'.exc = NoExc
          /\ NothingLeftBehind
      ]_vars

\* C20: a delete by the owner that has stopped after its first or its second
\* step (the organization record is still there) can be called again with
\* the same arguments: run to completion it returns True and leaves no
\* organization record, administrator record or storage resource of the
\* organization.  After a stop after the third step nothing is left either,
\* and the delete called again raises "Organization not found".
C20_DeleteRestartable ==
    [][/\ DeleteRetried({"admin", "org"}) =>
             /\ last'.exc = NoExc
             /\ last'.ret = TRUE
             /\ NothingLeftBehind
       /\ DeleteRetried({"return"}) =>
             /\ OrganizationNotFoundError(last'.exc)
             /\ NothingLeftBehind
      ]_vars

\* a delete stopped after its second step; the delete called again with the
\* same arguments has done its three steps and is about to return
C20_Witness ==
    /\ last.op = "delete" /\ last.exc = Crashed
    /\ last.ret.pc = "org"
    /\ procs["p1"].op = "delete"
    /\ procs["p1"].args = last.args
    /\ procs["p1"].pc = "return"
    /\ ~OrgExists(last.ret.org_id)
    /\ colls[last.ret.coll] = <<>>

----------------------------------------------------------------------------
(* Storage content, frames and links *)

\* C16 as stated: right after a create has returned, the collection of the
\* new organization holds one document, the sentinel written by this create
C16_Original ==
    (last.op = "create" /\ last.exc = NoExc /\ AllIdle) =>
        LET docs == colls[last.ret.collection_name]
        IN  /\ Len(docs) = 1
            /\ DOMAIN docs[1] = {"_id", "_schema_version", "_created_at"}

\* C17: an update that returns changes, in the organization record with the
\* current slug, nothing but name, slug, collection_name and updated_at, and
\* in the collections nothing but the destination: the _id, admin_id and
\* created_at of the record, every other organization record, every
\* administrator record and the source collection are as before.  This is so
\* of every step of the call, and the call returns with the record renamed.
C17_RenameFrame ==
    [][\A p \in ProcIds :
          /\ Taken(p, "update") \/ Admitted(p, "update") =>
                UNCHANGED <<orgs, admins, colls>>
          /\ Running(p, "update") =>
                LET c == procs[p]
                IN  /\ admins' = admins
                    /\ DOMAIN orgs' = DOMAIN orgs
                    /\ \A j \in DOMAIN orgs :
                          IF orgs[j]._id # c.org_id THEN orgs'[j] = orgs[j]
                          ELSE /\ DOMAIN orgs'[j] = DOMAIN orgs[j]
                               /\ \A k \in DOMAIN orgs[j] \
                                     {"name", "slug", "collection_name", "updated_at"} :
                                     orgs'[j][k] = orgs[j][k]
                    /\ \A n \in CollectionNames : n # c.coll => colls'[n] = colls[n]
                    /\ c.pc \in {"copy", "set", "return"} =>
                          /\ c.src # c.coll
                          /\ \E j \in DOMAIN orgs : orgs[j]._id = c.org_id
                    /\ procs'[p] = Idle /\ last'.exc = NoExc =>
                          /\ last'.ret.old_collection = c.src
                          /\ last'.ret.new_collection = c.coll
                          /\ \E j \in DOMAIN orgs' :
                                /\ orgs'[j]._id = c.org_id
                                /\ orgs'[j].name = c.args[2]
                                /\ orgs'[j].slug = c.slug
                                /\ orgs'[j].collection_name = c.coll
      ]_vars

\* an update has returned beside a second organization: the renamed record
\* has a later updated_at than created_at and the source still has documents
C17_Witness ==
    /\ last.op = "update" /\ last.exc = NoExc /\ AllIdle
    /\ Len(orgs) = 2
    /\ colls[last.ret.old_collection] # <<>>
    /\ \E i \in DOMAIN orgs :
          /\ orgs[i].slug = last.ret.organization_slug
          /\ orgs[i].collection_name = last.ret.new_collection
          /\ orgs[i].updated_at > orgs[i].created_at

\* C19: after any sequence of completed create, update and delete calls the
\* organization records and the administrator records are linked one to one:
\* the admin_id of each organization record is the id of exactly one
\* administrator record, whose organization_id is the id of that organization
\* record, and each administrator record is named by exactly one organization
\* record.
C19_OneToOne ==
    AllIdle =>
    /\ \A i \in DOMAIN orgs :
          /\ Cardinality({a \in DOMAIN admins : admins[a]._id = orgs[i].admin_id}) = 1
          /\ \A a \in DOMAIN admins :
                admins[a]._id = orgs[i].admin_id =>
                    /\ "organization_id" \in DOMAIN admins[a]
                    /\ admins[a].organization_id = orgs[i]._id
    /\ \A a \in DOMAIN admins :
          Cardinality({i \in DOMAIN orgs : orgs[i].admin_id = admins[a]._id}) = 1

\* two organizations were created, one has been deleted and the other one
\* renamed afterwards: one organization record and one administrator record
C19_Witness ==
    /\ last.op = "update" /\ last.exc = NoExc /\ AllIdle
    /\ \E s \in Slugs : freed[s] = "deleted"
    /\ Len(orgs) = 1 /\ Len(admins) = 1
    /\ admins[1].organization_id = orgs[1]._id

\* C18: decode_token reads and writes nothing of the store.  A decode leaves
\* the organization records, the administrator records and the collections
\* as they are, and its outcome is one that the token, the key and the clock
\* reading give: a token that was issued is accepted, with the claims it was
\* issued with, at every reading before its expiry, whether the organization
\* and the administrator it names are still there, renamed or deleted.
C18_DecodeIgnoresStore ==
    [][Called("decode_token") =>
          LET token == last'.args[1]
              t == last'.args[2]
          IN  /\ UNCHANGED <<orgs, admins, colls, nextOid>>
              /\ [exc |-> last'.exc, ret |-> last'.ret] \in
                     jwt_decode(token, JWT_SECRET, {JWT_ALG}, t)
              /\ (token \in tokens /\ t < token.payload.exp) =>
                     /\ last'.exc = NoExc
                     /\ last'.ret = token.payload
      ]_vars

\* a token issued for an organization has been accepted after the
\* organization record and the administrator record it names were deleted
C18_Witness ==
    /\ last.op = "decode_token" /\ last.exc = NoExc
    /\ last.args[1] \in tokens
    /\ last.ret = last.args[1].payload
    /\ \A i \in DOMAIN orgs : ObjectIdStr(orgs[i]._id) # last.ret.org_id
    /\ \A a \in DOMAIN admins : ObjectIdStr(admins[a]._id) # last.ret.sub
    /\ AllIdle

====
